---- MODULE Spec2Model ----
(***************************************************************************)
(* Model of the Cloudflare worker that regenerates PEP 503 index pages     *)
(* from an S3 listing (src/src/services/index-generator.ts,                *)
(* src/src/services/s3-client.ts, src/src/generators/*.ts and the worker   *)
(* entry point src/unnamed/part_001).                                      *)
(*                                                                         *)
(* JavaScript strings are modelled as sequences of one-character strings,  *)
(* so that split, indexOf, substring, toLowerCase, endsWith and the        *)
(* regular expressions of the source are computed, not assumed.            *)
(***************************************************************************)
EXTENDS Integers, Sequences, FiniteSets, TLC

VARIABLES
    \* ---- retention filter pass (S3Index.nightlyPackagesToShow) ----
    rPhase,          \* "input" | "once" | "twice"
    rObjects,        \* S3Index.objects handed to the first pass (keys, in order)
    rAllow,          \* packageAllowList
    rKeep,           \* keepThreshold
    rSorted,         \* sortedPackages of the last pass
    rCounts,         \* packageCounts of the last pass
    rHide,           \* toHide of the last pass
    rOut1,           \* result of the first pass
    rOut2,           \* result of the pass over rOut1
    \* ---- catalog filter (listObjectsWithPrefix) ----
    cPhase,          \* "listing" | "done"
    cPrefix,         \* the prefix argument
    cListing,        \* the keys the source store holds under Prefix, in listing order
    cToken,          \* continuationToken: how many keys earlier pages returned
    cYielded,        \* what the generator has yielded: [raw |-> obj.Key, key |-> sanitized]
    \* ---- metadata enrichment (fetchMetadataBatch) ----
    mPhase,          \* "batching" | "returned"
    mKeys,           \* the keys argument
    mNext,           \* the loop variable i (0-based index of the next batch)
    mInflight,       \* key -> [stage, metadata] for the pending promises of the batch
    mResult,         \* the result Map
    mHead,           \* key -> the response its HeadObject got
    mSibling,        \* key -> the response the HeadObject of "<key>.metadata" got
    \* ---- the scheduled run (scheduled, processPrefix) ----
    runPhase,        \* "config" | "feeds" | "done" | "threw"
    now,             \* (performance.now() - startTime) / 1000
    source,          \* the keys of the source bucket
    dest,            \* config.destR2Buckets: per bucket, key -> object
    feedIdx,         \* position of the loop over config.prefixes
    fPhase,          \* position of processPrefix in the current prefix
    fStart,          \* prefixStartTime, on the scale of now
    fObjects,        \* objects
    fPlan,           \* the pages still to generate and upload
    fError,          \* the error caught
    results,         \* results
    report,          \* the final metrics
    enrichLog,       \* history: the metadata stages entered or passed over
    trail,           \* history, per prefix: what its processing did
    env,             \* the Env the worker is invoked with
    prior,           \* history: the destination before the first invocation, and
                     \* what the invocation before this one left
    \* ---- a query of an S3Index (genFileList, getPackageNames) ----
    query            \* the index, the arguments and what the two methods gave

retVars == <<rPhase, rObjects, rAllow, rKeep, rSorted, rCounts, rHide, rOut1, rOut2>>
catVars == <<cPhase, cPrefix, cListing, cToken, cYielded>>
metaVars == <<mPhase, mKeys, mNext, mInflight, mResult, mHead, mSibling>>
runVars == <<runPhase, now, source, dest, feedIdx, fPhase, fStart, fObjects, fPlan, fError,
             results, report, enrichLog, trail, env, prior, query>>
vars == <<retVars, catVars, metaVars, runVars>>

\* the string literals of the sources, as sequences of characters
Lit ==
    [
      plus |-> <<"+">>,
      pct2B |-> <<"%", "2", "B">>,
      zeroVersion |-> <<"0", ".", "0", ".", "0">>,
      nightlyCpu |-> <<"w", "h", "l", "/", "n", "i", "g", "h", "t", "l", "y", "/", "c", "p",
          "u", "/">>,
      whlTail |-> <<"-", "a", ".", "w", "h", "l">>,
      whl |-> <<"w", "h", "l">>,
      zip |-> <<"z", "i", "p">>,
      tarGz |-> <<"t", "a", "r", ".", "g", "z">>,
      json |-> <<"j", "s", "o", "n">>,
      cu |-> <<"c", "u">>,
      rocm |-> <<"r", "o", "c", "m">>,
      cpu |-> <<"c", "p", "u">>,
      xpu |-> <<"x", "p", "u">>,
      slash |-> <<"/">>,
      dot |-> <<".">>,
      nightly |-> <<"n", "i", "g", "h", "t", "l", "y">>,
      whlNightly |-> <<"w", "h", "l", "/", "n", "i", "g", "h", "t", "l", "y">>,
      file |-> <<"a", "-", "1", ".", "w", "h", "l">>,
      plainChecksum |-> <<"Y", "W", "J", "j">>,
      compositeChecksum |-> <<"Y", "W", "I", "=", "-", "2">>,
      hexChecksum |-> <<"6", "1">>,
      underscore |-> <<"_">>,
      dash |-> <<"-">>,
      sha256Fragment |-> <<"#", "s", "h", "a", "2", "5", "6", "=">>,
      sha256Value |-> <<"s", "h", "a", "2", "5", "6", "=">>,
      linksFor |-> <<"L", "i", "n", "k", "s", " ", "f", "o", "r", " ">>,
      networkx33 |-> <<"n", "e", "t", "w", "o", "r", "k", "x", "-", "3", ".", "3", "-", "p",
          "y", "3", "-", "n", "o", "n", "e", "-", "a", "n", "y", ".", "w", "h", "l">>,
      networkx342 |-> <<"n", "e", "t", "w", "o", "r", "k", "x", "-", "3", ".", "4", ".", "2",
          "-", "p", "y", "3", "-", "n", "o", "n", "e", "-", "a", "n", "y", ".", "w", "h",
          "l">>,
      python310 |-> <<"&", "g", "t", ";", "=", "3", ".", "1", "0">>,
      libtorch |-> <<"l", "i", "b", "t", "o", "r", "c", "h">>,
      indexHtml |-> <<"i", "n", "d", "e", "x", ".", "h", "t", "m", "l">>,
      standaloneKey |-> <<"w", "h", "l", "/", "c", "p", "u", "/", "z", "-", "y", "/", "i", "n",
          "d", "e", "x", ".", "h", "t", "m", "l">>,
      listError |-> <<"l", "i", "s", "t">>,
      putError |-> <<"p", "u", "t">> ]

-----------------------------------------------------------------------------
(* JavaScript string primitives                                            *)

Digits == {"0", "1", "2", "3", "4", "5", "6", "7", "8", "9"}

DigitVal(c) ==
    CASE c = "0" -> 0 [] c = "1" -> 1 [] c = "2" -> 2 [] c = "3" -> 3
      [] c = "4" -> 4 [] c = "5" -> 5 [] c = "6" -> 6 [] c = "7" -> 7
      [] c = "8" -> 8 [] c = "9" -> 9

LowerLetters ==
    <<"a", "b", "c", "d", "e", "f", "g", "h", "i", "j", "k", "l", "m",
      "n", "o", "p", "q", "r", "s", "t", "u", "v", "w", "x", "y", "z">>

UpperLetters ==
    <<"A", "B", "C", "D", "E", "F", "G", "H", "I", "J", "K", "L", "M",
      "N", "O", "P", "Q", "R", "S", "T", "U", "V", "W", "X", "Y", "Z">>

\* position of c in the alphabet seq, 0 when it is not in it
LetterIndex(seq, c) ==
    IF \E i \in 1..26 : seq[i] = c THEN CHOOSE i \in 1..26 : seq[i] = c ELSE 0

\* String.prototype.toLowerCase, one character
LowerChar(c) ==
    IF LetterIndex(UpperLetters, c) > 0 THEN LowerLetters[LetterIndex(UpperLetters, c)] ELSE c

ToLowerCase(s) == [i \in 1..Len(s) |-> LowerChar(s[i])]

\* s.indexOf(c): 1-based position of the first c, 0 when there is none (JS -1)
IndexOf(s, c) ==
    LET hits == {i \in 1..Len(s) : s[i] = c}
    IN  IF hits = {} THEN 0 ELSE CHOOSE i \in hits : \A j \in hits : i <= j

\* s.lastIndexOf(c): 1-based position of the last c, 0 when there is none
LastIndexOf(s, c) ==
    LET hits == {i \in 1..Len(s) : s[i] = c}
    IN  IF hits = {} THEN 0 ELSE CHOOSE i \in hits : \A j \in hits : i >= j

\* s.substring(n) with a 0-based n: drops the first n characters
DropChars(s, n) == IF n >= Len(s) THEN <<>> ELSE SubSeq(s, n + 1, Len(s))

StartsWith(s, p) == Len(p) <= Len(s) /\ SubSeq(s, 1, Len(p)) = p

EndsWith(s, p) == Len(p) <= Len(s) /\ SubSeq(s, Len(s) - Len(p) + 1, Len(s)) = p

\* position of the first occurrence of the substring p in s, 0 when none
FindSub(s, p) ==
    LET hits == {i \in 1..(Len(s) - Len(p) + 1) : SubSeq(s, i, i + Len(p) - 1) = p}
    IN  IF hits = {} THEN 0 ELSE CHOOSE i \in hits : \A j \in hits : i <= j

RECURSIVE Split(_, _)
\* s.split(c) for a one-character separator c
Split(s, c) ==
    LET i == IndexOf(s, c)
    IN  IF i = 0 THEN <<s>>
        ELSE <<SubSeq(s, 1, i - 1)>> \o Split(DropChars(s, i), c)

Sign(n) == IF n < 0 THEN -1 ELSE IF n > 0 THEN 1 ELSE 0

\* Primary collation weight of a character in the root locale: punctuation,
\* then symbols, then digits, then letters (case is a tertiary difference).
CharRank(c) ==
    CASE c = "_" -> 1 [] c = "-" -> 2 [] c = "." -> 3 [] c = "/" -> 4
      [] c = "%" -> 5 [] c = "+" -> 6 [] c = "=" -> 7
      [] c \in Digits -> 10 + DigitVal(c)
      [] OTHER -> 30 + LetterIndex(LowerLetters, LowerChar(c))

RECURSIVE PrimaryCompare(_, _)
PrimaryCompare(a, b) ==
    IF a = <<>> THEN (IF b = <<>> THEN 0 ELSE -1)
    ELSE IF b = <<>> THEN 1
    ELSE IF CharRank(Head(a)) /= CharRank(Head(b))
         THEN Sign(CharRank(Head(a)) - CharRank(Head(b)))
         ELSE PrimaryCompare(Tail(a), Tail(b))

RECURSIVE CaseCompare(_, _)
\* tertiary level: at the first position where only the case differs, the
\* lower-case letter sorts first
CaseCompare(a, b) ==
    IF a = <<>> \/ b = <<>> THEN 0
    ELSE IF Head(a) = Head(b) THEN CaseCompare(Tail(a), Tail(b))
    ELSE IF LowerChar(Head(a)) = Head(a) THEN -1 ELSE 1

\* a.localeCompare(b)
LocaleCompare(a, b) ==
    LET p == PrimaryCompare(a, b) IN IF p /= 0 THEN p ELSE CaseCompare(a, b)

\* UTF-16 code unit of a character (the order of "<" on strings, of the
\* default Array.prototype.sort and of an S3 listing)
CodeUnit(c) ==
    CASE c = "%" -> 37 [] c = "+" -> 43 [] c = "-" -> 45 [] c = "." -> 46
      [] c = "/" -> 47 [] c = "=" -> 61 [] c = "_" -> 95 [] c = "\"" -> 34 [] c = ">" -> 62
      [] c \in Digits -> 48 + DigitVal(c)
      [] LetterIndex(UpperLetters, c) > 0 -> 64 + LetterIndex(UpperLetters, c)
      [] OTHER -> 96 + LetterIndex(LowerLetters, c)

RECURSIVE CodeUnitCompare(_, _)
CodeUnitCompare(a, b) ==
    IF a = <<>> THEN (IF b = <<>> THEN 0 ELSE -1)
    ELSE IF b = <<>> THEN 1
    ELSE IF CodeUnit(Head(a)) /= CodeUnit(Head(b))
         THEN Sign(CodeUnit(Head(a)) - CodeUnit(Head(b)))
         ELSE CodeUnitCompare(Tail(a), Tail(b))

RECURSIVE SortByCodeUnits(_)
\* the strings of a finite set in ascending code-unit order
SortByCodeUnits(S) ==
    IF S = {} THEN <<>>
    ELSE LET least == CHOOSE x \in S : \A y \in S : CodeUnitCompare(x, y) <= 0
         IN  <<least>> \o SortByCodeUnits(S \ {least})

-----------------------------------------------------------------------------
(* semver (npm package, strict mode) restricted to what a version segment   *)
(* can hold here: the segment comes out of split("-") with "%2B..." cut     *)
(* off, so it has no pre-release and no build part.                         *)

AllDigits(s) == s /= <<>> /\ \A i \in 1..Len(s) : s[i] \in Digits

\* a numeric identifier: 0, or digits without a leading zero
NumericId(s) == AllDigits(s) /\ (Len(s) = 1 \/ s[1] /= "0")

RECURSIVE NumVal(_)
NumVal(s) == IF s = <<>> THEN 0 ELSE 10 * NumVal(SubSeq(s, 1, Len(s) - 1)) + DigitVal(s[Len(s)])

\* new SemVer(v) does not throw
SemverValid(v) ==
    LET p == Split(v, ".")
    IN  Len(p) = 3 /\ \A i \in 1..3 : NumericId(p[i])

\* semver.compare(a, b) for two valid versions
SemverCompare(a, b) ==
    LET p == Split(a, ".")
        q == Split(b, ".")
    IN  IF NumVal(p[1]) /= NumVal(q[1]) THEN Sign(NumVal(p[1]) - NumVal(q[1]))
        ELSE IF NumVal(p[2]) /= NumVal(q[2]) THEN Sign(NumVal(p[2]) - NumVal(q[2]))
        ELSE Sign(NumVal(p[3]) - NumVal(q[3]))

-----------------------------------------------------------------------------
(* S3Object and the S3Index helpers (index-generator.ts)                    *)

\* an optional field: undefined, or a defined value
Undefined == [def |-> FALSE, val |-> <<>>]
Defined(v) == [def |-> TRUE, val |-> v]

RECURSIVE ReplaceAll(_, _, _)
\* s.replace(/p/g, r) for a literal p
ReplaceAll(s, p, r) ==
    LET i == FindSub(s, p)
    IN  IF i = 0 THEN s
        ELSE SubSeq(s, 1, i - 1) \o r \o ReplaceAll(DropChars(s, i + Len(p) - 1), p, r)

\* the S3Object processPrefix builds from a listed key
MakeObject(key) ==
    [key |-> key, origKey |-> ReplaceAll(key, Lit.pct2B, Lit.plus),
     checksum |-> Undefined, size |-> Undefined, pep658 |-> Undefined]

Dirname(path) ==
    LET lastSlash == LastIndexOf(path, "/")
    IN  IF lastSlash > 0 THEN SubSeq(path, 1, lastSlash - 1) ELSE <<>>

Basename(path) ==
    LET lastSlash == LastIndexOf(path, "/")
    IN  IF lastSlash > 0 THEN DropChars(path, lastSlash) ELSE path

\* S3Index.normalizePackageVersion: "<name>-<version>" with "%2B..." cut off
NormalizePackageVersion(obj) ==
    LET basename == Basename(obj.key)
        parts == Split(basename, "-")
        normalized == parts[1] \o <<"-">> \o parts[2]
        cut == FindSub(normalized, Lit.pct2B)
    IN  IF Len(parts) < 2 THEN basename
        ELSE IF cut = 0 THEN normalized
        ELSE SubSeq(normalized, 1, cut - 1)

-----------------------------------------------------------------------------
(* S3Index.nightlyPackagesToShow                                            *)

\* a.split("-")[1] || "0.0.0"
VersionOf(normalized) ==
    LET parts == Split(normalized, "-")
    IN  IF Len(parts) >= 2 /\ parts[2] /= <<>> THEN parts[2] ELSE Lit.zeroVersion

\* the comparator handed to sort: semver.rcompare, and on a throw (either
\* side is no valid semver) versionB.localeCompare(versionA)
SortCompare(a, b) ==
    LET versionA == VersionOf(a)
        versionB == VersionOf(b)
    IN  IF SemverValid(versionA) /\ SemverValid(versionB)
        THEN SemverCompare(versionB, versionA)
        ELSE LocaleCompare(versionB, versionA)

RECURSIVE AddAll(_, _)
\* a JavaScript Set filled in order, as the sequence of its insertion order
AddAll(acc, items) ==
    IF items = <<>> THEN acc
    ELSE AddAll(IF \E i \in 1..Len(acc) : acc[i] = Head(items)
                THEN acc ELSE Append(acc, Head(items)),
                Tail(items))

NormalizedVersions(objects) ==
    AddAll(<<>>, [i \in 1..Len(objects) |-> NormalizePackageVersion(objects[i])])

Range(seq) == {seq[i] : i \in 1..Len(seq)}

\* ECMAScript: the comparator (cmp[<<a, b>>] = SortCompare(a, b)) is
\* consistent on the values being sorted
ConsistentComparator(S, cmp) ==
    /\ \A a, b \in S : cmp[<<a, b>>] = -cmp[<<b, a>>]
    /\ \A a, b, c \in S :
          /\ (cmp[<<a, b>>] = 0 /\ cmp[<<b, c>>] = 0) => cmp[<<a, c>>] = 0
          /\ (cmp[<<a, b>>] < 0 /\ cmp[<<b, c>>] < 0) => cmp[<<a, c>>] < 0

SortPermutations(seq) ==
    {p \in [1..Len(seq) -> Range(seq)] : \A i, j \in 1..Len(seq) : i /= j => p[i] /= p[j]}

PositionIn(seq, x) == CHOOSE i \in 1..Len(seq) : seq[i] = x

\* p is seq in comparator order, equal values in their order in seq
SortedStable(p, seq, cmp) ==
    \A i, j \in 1..Len(seq) : i < j =>
        \/ cmp[<<p[i], p[j]>>] < 0
        \/ /\ cmp[<<p[i], p[j]>>] = 0
           /\ PositionIn(seq, p[i]) < PositionIn(seq, p[j])

\* Array.prototype.sort with SortCompare: the stable sort when the comparator
\* is consistent on the values; an implementation-defined order of the same
\* values when it is not.  (cmp is the table of SortCompare over the values;
\* @@ <<>> has it built once instead of at every lookup.)
SortOutcomes(seq) ==
    LET cmp == [p \in Range(seq) \X Range(seq) |-> SortCompare(p[1], p[2])] @@ <<>>
        perms == SortPermutations(seq)
    IN  IF ConsistentComparator(Range(seq), cmp)
        THEN {p \in perms : SortedStable(p, seq, cmp)}
        ELSE perms

\* basename.split("-")[0] of a sorted entry
WalkPackageName(normalized) == Split(Basename(normalized), "-")[1]

\* packageCounts.get(packageName) || 0
CountOf(counts, name) == IF name \in DOMAIN counts THEN counts[name] ELSE 0

\* WalkStep without the `continue` of the allow-list branch: a rejected entry
\* falls through to the threshold check and is counted
WalkStepNoContinue(st, normalized, packageAllowList, keepThreshold) ==
    LET packageName == WalkPackageName(normalized)
        count == CountOf(st.counts, packageName)
        hidden == IF ToLowerCase(packageName) \notin packageAllowList
                  THEN st.hide \cup {normalized} ELSE st.hide
    IN  IF count >= keepThreshold
        THEN [st EXCEPT !.hide = hidden \cup {normalized}]
        ELSE [counts |-> [n \in DOMAIN st.counts \cup {packageName} |->
                            IF n = packageName THEN count + 1 ELSE st.counts[n]],
              hide |-> hidden]

\* one iteration of the loop over sortedPackages
WalkStep(st, normalized, packageAllowList, keepThreshold) ==
    LET packageName == WalkPackageName(normalized)
        count == CountOf(st.counts, packageName)
    IN  IF ToLowerCase(packageName) \notin packageAllowList
        THEN [st EXCEPT !.hide = @ \cup {normalized}]
        ELSE IF count >= keepThreshold
        THEN [st EXCEPT !.hide = @ \cup {normalized}]
        ELSE [st EXCEPT !.counts =
                [n \in DOMAIN @ \cup {packageName} |->
                    IF n = packageName THEN count + 1 ELSE @[n]]]

RECURSIVE Walk(_, _, _, _)
Walk(st, sorted, packageAllowList, keepThreshold) ==
    IF sorted = <<>> THEN st
    ELSE Walk(WalkStep(st, Head(sorted), packageAllowList, keepThreshold),
              Tail(sorted), packageAllowList, keepThreshold)

EmptyWalk == [counts |-> <<>>, hide |-> {}]

\* Retained with the negation dropped
RetainedInverted(obj, toHide) == NormalizePackageVersion(obj) \in toHide

\* the predicate of the final this.objects.filter
Retained(obj, toHide) == NormalizePackageVersion(obj) \notin toHide

FilterObjects(objects, toHide) == SelectSeq(objects, LAMBDA o : Retained(o, toHide))

-----------------------------------------------------------------------------
(* The retention filter applied to a catalog, and again to its own output   *)

MaxObjects == 3
MaxKeep == 2

\* file names of the nightly feed: three semver versions of f, one version
\* that is no semver, a build variant, another spelling of the name, a
\* package outside the allow-list and a name without a dash
RetentionFiles ==
    { <<"f", "-", "1", "0", ".", "0", ".", "0">> \o Lit.whlTail,
      <<"f", "-", "9", ".", "0", ".", "0">> \o Lit.whlTail,
      <<"f", "-", "9", ".", "0", ".", "0", "%", "2", "B", "c", "u">> \o Lit.whlTail,
      <<"f", "-", "1", ".", "0", ".", "0">> \o Lit.whlTail,
      <<"f", "-", "2", ".", "0">> \o Lit.whlTail,
      <<"F", "-", "9", ".", "0", ".", "0">> \o Lit.whlTail,
      <<"b", "-", "9", ".", "5", ".", "0">> \o Lit.whlTail,
      <<"f", ".", "w", "h", "l">> }

RetentionKeys == {Lit.nightlyCpu \o f : f \in RetentionFiles}

AllowLists == { {<<"f">>}, {<<"f">>, <<"b">>} }

\* catalogs: up to MaxObjects keys, in the order an S3 listing returns them
Catalogs ==
    {[i \in 1..Cardinality(ks) |-> MakeObject(SortByCodeUnits(ks)[i])] :
        ks \in {q \in SUBSET RetentionKeys : Cardinality(q) <= MaxObjects}}

\* the catalog filter is not part of this specification
CatalogIdle ==
    /\ cPhase = "off"
    /\ cPrefix = <<>>
    /\ cListing = <<>>
    /\ cToken = 0
    /\ cYielded = <<>>

\* metadata enrichment is not part of this specification
MetaIdle ==
    /\ mPhase = "off"
    /\ mKeys = <<>>
    /\ mNext = 0
    /\ mInflight = <<>>
    /\ mResult = <<>>
    /\ mHead = <<>>
    /\ mSibling = <<>>

\* no scheduled run is part of this specification
RunIdle ==
    /\ runPhase = "off"
    /\ now = 0
    /\ source = {}
    /\ dest = <<>>
    /\ feedIdx = 0
    /\ fPhase = "none"
    /\ fStart = 0
    /\ fObjects = <<>>
    /\ fPlan = <<>>
    /\ fError = Undefined
    /\ results = <<>>
    /\ report = <<>>
    /\ enrichLog = <<>>
    /\ trail = <<>>
    /\ env = <<>>
    /\ prior = <<>>
    /\ query = <<>>

InitRetention ==
    /\ CatalogIdle
    /\ MetaIdle
    /\ RunIdle
    /\ rPhase = "input"
    /\ rObjects \in Catalogs
    /\ rAllow \in AllowLists
    /\ rKeep \in 0..MaxKeep
    /\ rSorted = <<>>
    /\ rCounts = <<>>
    /\ rHide = {}
    /\ rOut1 = <<>>
    /\ rOut2 = <<>>

\* index.nightlyPackagesToShow(allow, keep) on the catalog
RetainOnce ==
    /\ rPhase = "input"
    /\ \E sorted \in SortOutcomes(NormalizedVersions(rObjects)) :
          LET st == Walk(EmptyWalk, sorted, rAllow, rKeep)
          IN  /\ rSorted' = sorted
              /\ rCounts' = st.counts
              /\ rHide' = st.hide
              /\ rOut1' = FilterObjects(rObjects, st.hide)
    /\ rPhase' = "once"
    /\ UNCHANGED <<rObjects, rAllow, rKeep, rOut2, catVars, metaVars, runVars>>

\* new S3Index(rOut1, prefix).nightlyPackagesToShow(allow, keep)
RetainAgain ==
    /\ rPhase = "once"
    /\ \E sorted \in SortOutcomes(NormalizedVersions(rOut1)) :
          LET st == Walk(EmptyWalk, sorted, rAllow, rKeep)
          IN  /\ rSorted' = sorted
              /\ rCounts' = st.counts
              /\ rHide' = st.hide
              /\ rOut2' = FilterObjects(rOut1, st.hide)
    /\ rPhase' = "twice"
    /\ UNCHANGED <<rObjects, rAllow, rKeep, rOut1, catVars, metaVars, runVars>>

NextRetention == RetainOnce \/ RetainAgain

SpecRetention == InitRetention /\ [][NextRetention]_vars

-----------------------------------------------------------------------------
(* Catalog filter: listObjectsWithPrefix (s3-client.ts)                     *)

\* config.acceptedFileExtensions
AcceptedFileExtensions == <<Lit.whl, Lit.zip, Lit.tarGz, Lit.json>>

\* extensions.some((ext) => key.endsWith(`.${ext}`))
HasAcceptedExtension(key, extensions) ==
    \E i \in 1..Len(extensions) : EndsWith(key, Lit.dot \o extensions[i])

\* /^cu[0-9]+$/
MatchesCu(s) == StartsWith(s, Lit.cu) /\ AllDigits(DropChars(s, Len(Lit.cu)))

\* /^rocm[0-9]+\.[0-9]+$/
MatchesRocm(s) ==
    /\ StartsWith(s, Lit.rocm)
    /\ LET parts == Split(DropChars(s, Len(Lit.rocm)), ".")
       IN  Len(parts) = 2 /\ AllDigits(parts[1]) /\ AllDigits(parts[2])

\* config.acceptedSubdirPatterns: patterns.some((pattern) => pattern.test(s))
MatchesAcceptedPattern(s) ==
    MatchesCu(s) \/ MatchesRocm(s) \/ s = Lit.cpu \/ s = Lit.xpu

\* matchesSubdirPattern(dir, prefix, patterns)
MatchesSubdirPattern(dir, prefix) ==
    IF dir = prefix THEN TRUE
    ELSE LET relativePath == DropChars(dir, Len(prefix) + 1)
         IN  IF IndexOf(relativePath, "/") > 0 THEN FALSE
             ELSE MatchesAcceptedPattern(relativePath)

\* sanitizeKey: key.replace(/\+/g, "%2B")
SanitizeKey(key) == ReplaceAll(key, Lit.plus, Lit.pct2B)

\* prefix.endsWith("/") ? prefix.slice(0, -1) : prefix
NormalizedPrefix(prefix) ==
    IF EndsWith(prefix, Lit.slash) THEN SubSeq(prefix, 1, Len(prefix) - 1) ELSE prefix

\* the body of the loop over response.Contents: TRUE when the key is yielded
Accepts(key, normalizedPrefix) ==
    /\ HasAcceptedExtension(key, AcceptedFileExtensions)
    /\ MatchesSubdirPattern(Dirname(key), normalizedPrefix)

RECURSIVE YieldPage(_, _)
\* what one response page adds to the generator's output
YieldPage(page, normalizedPrefix) ==
    IF page = <<>> THEN <<>>
    ELSE (IF Accepts(Head(page), normalizedPrefix)
          THEN <<[raw |-> Head(page), key |-> SanitizeKey(Head(page))]>>
          ELSE <<>>) \o YieldPage(Tail(page), normalizedPrefix)

\* keys per ListObjectsV2 response page
PageSize == 2
MaxBucketKeys == 3

\* objects of the source bucket whose key starts with "whl"
BucketKeys ==
    { Lit.whl \o Lit.slash \o Lit.file,
      Lit.whl \o Lit.slash \o <<"a", "+", "c", "u", ".", "t", "a", "r", ".", "g", "z">>,
      Lit.whl \o Lit.slash \o Lit.cpu \o Lit.slash \o Lit.file,
      Lit.whl \o Lit.slash \o <<"c", "u", "1", "2">> \o Lit.slash \o Lit.file,
      Lit.whl \o Lit.slash \o <<"r", "o", "c", "m", "5", ".", "4">> \o Lit.slash \o Lit.file,
      Lit.whl \o Lit.slash \o Lit.cpu \o Lit.slash \o <<"a", ".", "t", "x", "t">>,
      Lit.whl \o Lit.slash \o <<"c", "u">> \o Lit.slash \o Lit.file,
      Lit.whl \o Lit.slash \o Lit.cpu \o Lit.slash \o <<"x">> \o Lit.slash \o Lit.file,
      Lit.whlNightly \o Lit.slash \o Lit.file,
      Lit.whlNightly \o Lit.slash \o Lit.xpu \o Lit.slash \o Lit.file,
      Lit.whl \o <<"_">> \o Lit.cpu \o Lit.slash \o Lit.file,
      Lit.whl \o <<".", "w", "h", "l">> }

FeedPrefixes == {Lit.whl, Lit.whlNightly, Lit.whl \o Lit.slash}

\* ListObjectsV2 with Prefix: the keys that start with the prefix string, in
\* ascending order
ListUnderPrefix(keys, normalizedPrefix) ==
    SortByCodeUnits({k \in keys : StartsWith(k, normalizedPrefix)})

RetentionIdle ==
    /\ rPhase = "off"
    /\ rObjects = <<>>
    /\ rAllow = {}
    /\ rKeep = 0
    /\ rSorted = <<>>
    /\ rCounts = <<>>
    /\ rHide = {}
    /\ rOut1 = <<>>
    /\ rOut2 = <<>>

InitCatalog ==
    /\ RetentionIdle
    /\ MetaIdle
    /\ RunIdle
    /\ cPhase = "listing"
    /\ cPrefix \in FeedPrefixes
    /\ \E keys \in {q \in SUBSET BucketKeys : Cardinality(q) <= MaxBucketKeys} :
          cListing = ListUnderPrefix(keys, NormalizedPrefix(cPrefix))
    /\ cToken = 0
    /\ cYielded = <<>>

\* one iteration of the do-while loop: one ListObjectsV2 response
ListPage ==
    /\ cPhase = "listing"
    /\ LET last == IF cToken + PageSize <= Len(cListing) THEN cToken + PageSize
                    ELSE Len(cListing)
           page == SubSeq(cListing, cToken + 1, last)
       IN  /\ cYielded' = cYielded \o YieldPage(page, NormalizedPrefix(cPrefix))
           /\ cToken' = last
           \* NextContinuationToken is set while the listing is truncated
           /\ cPhase' = IF last < Len(cListing) THEN "listing" ELSE "done"
    /\ UNCHANGED <<cPrefix, cListing, retVars, metaVars, runVars>>

NextCatalog == ListPage

SpecCatalog == InitCatalog /\ [][NextCatalog]_vars

-----------------------------------------------------------------------------
(* Metadata enrichment: parseChecksum, fetchObjectMetadata,                 *)
(* fetchMetadataBatch (s3-client.ts)                                        *)

\* JavaScript truthiness of an optional string
Truthy(opt) == opt.def /\ opt.val /= <<>>

\* /^[A-Za-z0-9+/=]+=-[0-9]+$/
Base64Class(c) ==
    \/ LetterIndex(UpperLetters, c) > 0
    \/ LetterIndex(LowerLetters, c) > 0
    \/ c \in Digits
    \/ c \in {"+", "/", "="}

MultipartUploadRegex(s) ==
    \E i \in 2..(Len(s) - 2) :
        /\ \A j \in 1..(i - 1) : Base64Class(s[j])
        /\ s[i] = "="
        /\ s[i + 1] = "-"
        /\ AllDigits(DropChars(s, i + 1))

\* value of a character in the base64 alphabets Buffer.from accepts (standard
\* and URL-safe); -1 for any other character
Base64Value(c) ==
    CASE LetterIndex(UpperLetters, c) > 0 -> LetterIndex(UpperLetters, c) - 1
      [] LetterIndex(LowerLetters, c) > 0 -> 25 + LetterIndex(LowerLetters, c)
      [] c \in Digits -> 52 + DigitVal(c)
      [] c \in {"+", "-"} -> 62
      [] c \in {"/", "_"} -> 63
      [] OTHER -> -1

RECURSIVE Base64Sextets(_)
\* the 6-bit values up to the first padding character, other characters skipped
Base64Sextets(s) ==
    IF s = <<>> \/ Head(s) = "=" THEN <<>>
    ELSE IF Base64Value(Head(s)) < 0 THEN Base64Sextets(Tail(s))
    ELSE <<Base64Value(Head(s))>> \o Base64Sextets(Tail(s))

RECURSIVE Base64Bytes(_)
\* Buffer.from(s, "base64") on the sextets: three bytes per four sextets, a
\* trailing group of three gives two bytes, of two gives one
Base64Bytes(v) ==
    IF Len(v) >= 4
    THEN LET n == ((v[1] * 64 + v[2]) * 64 + v[3]) * 64 + v[4]
         IN  <<n \div 65536, (n \div 256) % 256, n % 256>> \o Base64Bytes(SubSeq(v, 5, Len(v)))
    ELSE IF Len(v) = 3
    THEN LET n == ((v[1] * 64 + v[2]) * 64 + v[3]) \div 4
         IN  <<n \div 256, n % 256>>
    ELSE IF Len(v) = 2
    THEN <<(v[1] * 64 + v[2]) \div 16>>
    ELSE <<>>

HexDigits == <<"0", "1", "2", "3", "4", "5", "6", "7", "8", "9", "a", "b", "c", "d", "e", "f">>

RECURSIVE ToHex(_)
\* buffer.toString("hex")
ToHex(bytes) ==
    IF bytes = <<>> THEN <<>>
    ELSE <<HexDigits[(Head(bytes) \div 16) + 1], HexDigits[(Head(bytes) % 16) + 1]>>
         \o ToHex(Tail(bytes))

\* Buffer.from(s, "base64").toString("hex")
Base64ToHex(s) == ToHex(Base64Bytes(Base64Sextets(s)))

\* parseChecksum(response)
ParseChecksum(response) ==
    IF Truthy(response.ChecksumSHA256)
    THEN IF MultipartUploadRegex(response.ChecksumSHA256.val)
         THEN Undefined
         ELSE Defined(Base64ToHex(response.ChecksumSHA256.val))
    ELSE IF response.Metadata.def
    THEN IF Truthy(response.Metadata.val.checksumSha256)
         THEN response.Metadata.val.checksumSha256
         ELSE response.Metadata.val.xAmzMetaChecksumSha256
    ELSE Undefined

\* const metadata: ObjectMetadata = {}
EmptyMetadata == [checksum |-> Undefined, size |-> Undefined, pep658 |-> Undefined]

\* fetchObjectMetadata after the first HeadObject has answered: the outer
\* catch leaves metadata empty
MetadataAfterHead(response) ==
    IF response.kind /= "ok" THEN EmptyMetadata
    ELSE [checksum |-> ParseChecksum(response),
          size |-> response.ContentLength,
          pep658 |-> Undefined]

\* MetadataAfterSibling with an inner catch that gives up the whole entry
MetadataAfterSiblingClearing(metadata, response) ==
    IF response.kind /= "ok" THEN EmptyMetadata
    ELSE IF Truthy(response.ChecksumSHA256)
    THEN [metadata EXCEPT !.pep658 = Defined(Base64ToHex(response.ChecksumSHA256.val))]
    ELSE metadata

\* fetchObjectMetadata after the HeadObject of "<key>.metadata" has answered:
\* the inner catch swallows every error
MetadataAfterSibling(metadata, response) ==
    IF response.kind /= "ok" THEN metadata
    ELSE IF Truthy(response.ChecksumSHA256)
    THEN [metadata EXCEPT !.pep658 = Defined(Base64ToHex(response.ChecksumSHA256.val))]
    ELSE metadata

\* HeadObject outcomes
HeadFailure(kind) ==
    [kind |-> kind, ChecksumSHA256 |-> Undefined, ContentLength |-> Undefined,
     Metadata |-> Undefined]

HeadOk(checksum, size, metadata) ==
    [kind |-> "ok", ChecksumSHA256 |-> checksum, ContentLength |-> Defined(size),
     Metadata |-> metadata]

NoUserMetadata == [checksumSha256 |-> Undefined, xAmzMetaChecksumSha256 |-> Undefined]

\* what the source store may answer to the HeadObject of an artifact
HeadResponses ==
    { HeadFailure("error"),
      HeadOk(Defined(Lit.plainChecksum), 3, Undefined),
      HeadOk(Defined(Lit.compositeChecksum), 5, Undefined),
      HeadOk(Undefined, 7,
             Defined([NoUserMetadata EXCEPT !.xAmzMetaChecksumSha256 = Defined(Lit.hexChecksum)])) }

\* what it may answer to the HeadObject of "<key>.metadata"
SiblingResponses ==
    { HeadFailure("notfound"),
      HeadFailure("error"),
      HeadOk(Defined(Lit.plainChecksum), 3, Undefined),
      HeadOk(Defined(Lit.compositeChecksum), 5, Undefined),
      HeadOk(Undefined, 7, Undefined) }

\* the batchSize argument and the number of keys asked for
BatchSize == 2
MaxMetaKeys == 3

MetaKeyPool ==
    { Lit.whl \o Lit.slash \o Lit.file,
      Lit.whl \o Lit.slash \o Lit.cpu \o Lit.slash \o Lit.file,
      Lit.whl \o Lit.slash \o <<"a", "+", "c", "u", "-", "1", ".", "w", "h", "l">> }

\* f with key mapped to value (Map.prototype.set)
MapSet(f, key, value) == [k \in DOMAIN f \cup {key} |-> IF k = key THEN value ELSE f[k]]

InitMeta ==
    /\ RetentionIdle
    /\ CatalogIdle
    /\ RunIdle
    /\ mPhase = "batching"
    /\ \E keys \in {q \in SUBSET MetaKeyPool : Cardinality(q) <= MaxMetaKeys} :
          mKeys = SortByCodeUnits(keys)
    /\ mNext = 0
    /\ mInflight = <<>>
    /\ mResult = <<>>
    /\ mHead = <<>>
    /\ mSibling = <<>>

\* BatchAt taking every key from i on
BatchAtUnbounded(keys, i, batchSize) == SubSeq(keys, i + 1, Len(keys))

\* keys.slice(i, i + batchSize)
BatchAt(keys, i, batchSize) ==
    SubSeq(keys, i + 1, IF i + batchSize <= Len(keys) THEN i + batchSize ELSE Len(keys))

\* batch.map(...): every lookup of the batch is started
DispatchBatch ==
    /\ mPhase = "batching"
    /\ mInflight = <<>>
    /\ mNext < Len(mKeys)
    /\ mInflight' = [k \in Range(BatchAt(mKeys, mNext, BatchSize)) |->
                        [stage |-> "head", metadata |-> EmptyMetadata]]
    /\ UNCHANGED <<mPhase, mKeys, mNext, mResult, mHead, mSibling, retVars, catVars, runVars>>

\* the HeadObject of one pending key answers
ResolveHead(k) ==
    /\ mPhase = "batching"
    /\ k \in DOMAIN mInflight
    /\ mInflight[k].stage = "head"
    /\ \E response \in HeadResponses :
          /\ mHead' = MapSet(mHead, k, response)
          /\ mInflight' = [mInflight EXCEPT ![k] =
                [stage |-> IF response.kind = "ok" THEN "sibling" ELSE "done",
                 metadata |-> MetadataAfterHead(response)]]
    /\ UNCHANGED <<mPhase, mKeys, mNext, mResult, mSibling, retVars, catVars, runVars>>

\* the HeadObject of "<key>.metadata" of one pending key answers
ResolveSibling(k) ==
    /\ mPhase = "batching"
    /\ k \in DOMAIN mInflight
    /\ mInflight[k].stage = "sibling"
    /\ \E response \in SiblingResponses :
          /\ mSibling' = MapSet(mSibling, k, response)
          /\ mInflight' = [mInflight EXCEPT ![k] =
                [stage |-> "done",
                 metadata |-> MetadataAfterSibling(mInflight[k].metadata, response)]]
    /\ UNCHANGED <<mPhase, mKeys, mNext, mResult, mHead, retVars, catVars, runVars>>

RECURSIVE SetAll(_, _, _)
\* for (const { key, metadata } of batchResults) result.set(key, metadata)
SetAll(result, batch, inflight) ==
    IF batch = <<>> THEN result
    ELSE SetAll(MapSet(result, Head(batch), inflight[Head(batch)].metadata),
                Tail(batch), inflight)

\* Promise.all resolves: the batch's results go into the Map, i += batchSize
CollectBatch ==
    /\ mPhase = "batching"
    /\ mInflight /= <<>>
    /\ \A k \in DOMAIN mInflight : mInflight[k].stage = "done"
    /\ mResult' = SetAll(mResult, BatchAt(mKeys, mNext, BatchSize), mInflight)
    /\ mNext' = mNext + BatchSize
    /\ mInflight' = <<>>
    /\ UNCHANGED <<mPhase, mKeys, mHead, mSibling, retVars, catVars, runVars>>

\* the loop condition fails: return result
ReturnResult ==
    /\ mPhase = "batching"
    /\ mInflight = <<>>
    /\ mNext >= Len(mKeys)
    /\ mPhase' = "returned"
    /\ UNCHANGED <<mKeys, mNext, mInflight, mResult, mHead, mSibling, retVars, catVars, runVars>>

NextMeta ==
    \/ DispatchBatch
    \/ \E k \in MetaKeyPool : ResolveHead(k)
    \/ \E k \in MetaKeyPool : ResolveSibling(k)
    \/ CollectBatch
    \/ ReturnResult

SpecMeta == InitMeta /\ [][NextMeta]_vars

-----------------------------------------------------------------------------
(* S3Index queries and the three page generators                            *)

\* S3Index.objToPackageName
ObjToPackageName(obj) ==
    LET basename == Basename(obj.key)
        firstDash == IndexOf(basename, "-")
    IN  ToLowerCase(IF firstDash > 0 THEN SubSeq(basename, 1, firstDash - 1) ELSE basename)

\* prefix.replace(/\/$/, "") of the S3Index constructor and of genFileList
StripTrailingSlash(path) ==
    IF EndsWith(path, Lit.slash) THEN SubSeq(path, 1, Len(path) - 1) ELSE path

\* S3Index.getSubdirs: a Set, in insertion order
GetSubdirs(objects, prefix) ==
    AddAll(<<>>, SelectSeq([i \in 1..Len(objects) |-> Dirname(objects[i].key)],
                           LAMBDA dir : dir /= <<>> /\ dir /= StripTrailingSlash(prefix)))

\* S3Index.isObjAtRoot
IsObjAtRoot(obj, prefix) == Dirname(obj.key) = StripTrailingSlash(prefix)

\* S3Index.genFileList(subdir?, packageName?), both arguments optional
GenFileList(objects, prefix, subdir, packageName) ==
    LET resolvedSubdir == IF Truthy(subdir) THEN StripTrailingSlash(subdir.val)
                          ELSE StripTrailingSlash(prefix)
    IN  SelectSeq(objects, LAMBDA obj :
            /\ ~(Truthy(packageName) /\ ObjToPackageName(obj) /= packageName.val)
            /\ (IsObjAtRoot(obj, prefix) \/ StartsWith(obj.key, resolvedSubdir \o Lit.slash)))

\* S3Index.getPackageNames(subdir)
GetPackageNames(objects, prefix, subdir) ==
    LET files == GenFileList(objects, prefix, subdir, Undefined)
    IN  SortByCodeUnits({ObjToPackageName(files[i]) : i \in 1..Len(files)})

\* one line of a page: its tag, and for a link its href, attributes and text
Line(tag, href, attributes, text) ==
    [tag |-> tag, href |-> href, attributes |-> attributes, text |-> text]

RECURSIVE ToDecimal(_)
\* `${n}` of a non-negative integer
ToDecimal(n) ==
    LET digit(d) == CHOOSE c \in Digits : DigitVal(c) = d
    IN  IF n < 10 THEN <<digit(n)>> ELSE ToDecimal(n \div 10) \o <<digit(n % 10)>>

\* the three header lines the PEP 503 generators push
HtmlHeader ==
    <<Line("<!DOCTYPE html>", <<>>, <<>>, <<>>), Line("<html>", <<>>, <<>>, <<>>),
      Line("<body>", <<>>, <<>>, <<>>)>>

\* the footer lines; epochSeconds is Math.floor(Date.now() / 1000)
HtmlFooter(epochSeconds) ==
    <<Line("</body>", <<>>, <<>>, <<>>), Line("</html>", <<>>, <<>>, <<>>),
      Line("<!--TIMESTAMP-->", <<>>, <<>>, ToDecimal(epochSeconds))>>

\* generateSimplePackagesHtml(packageNames)
GenerateSimplePackagesHtml(packageNames, epochSeconds) ==
    LET sortedNames == SortByCodeUnits(Range(packageNames))
        link(pkgName) ==
            LET displayName == ReplaceAll(pkgName, Lit.underscore, Lit.dash)
            IN  Line("a", displayName \o Lit.slash, <<>>, displayName)
    IN  HtmlHeader \o [i \in 1..Len(sortedNames) |-> link(sortedNames[i])]
        \o HtmlFooter(epochSeconds)

RECURSIVE InsertByLocale(_, _)
InsertByLocale(sorted, obj) ==
    IF sorted = <<>> THEN <<obj>>
    ELSE IF LocaleCompare(obj.key, Head(sorted).key) < 0 THEN <<obj>> \o sorted
    ELSE <<Head(sorted)>> \o InsertByLocale(Tail(sorted), obj)

RECURSIVE SortByKeyLocale(_, _)
\* [...objects].sort((a, b) => a.key.localeCompare(b.key)), a stable sort
SortByKeyLocale(sorted, objects) ==
    IF objects = <<>> THEN sorted
    ELSE SortByKeyLocale(InsertByLocale(sorted, Head(objects)), Tail(objects))

\* PackageLink with the checksum fragment on every feed
PackageLinkIgnoringNightly(obj, isNightly) ==
    LET displayName == ReplaceAll(Basename(obj.key), Lit.pct2B, Lit.plus)
        maybeFragment == IF Truthy(obj.checksum)
                         THEN Lit.sha256Fragment \o obj.checksum.val ELSE <<>>
    IN  Line("a", Lit.slash \o obj.key \o maybeFragment, <<>>, displayName)

\* the link line generateSimplePackageHtml pushes for one object
PackageLink(obj, isNightly) ==
    LET displayName == ReplaceAll(Basename(obj.key), Lit.pct2B, Lit.plus)
        maybeFragment == IF Truthy(obj.checksum) /\ ~isNightly
                         THEN Lit.sha256Fragment \o obj.checksum.val ELSE <<>>
        pep658Sha == Lit.sha256Value \o obj.pep658.val
        pep658Attributes ==
            IF Truthy(obj.pep658)
            THEN <<<<"data-dist-info-metadata", pep658Sha>>, <<"data-core-metadata", pep658Sha>>>>
            ELSE <<>>
        pythonAttributes ==
            IF EndsWith(obj.key, Lit.networkx33) \/ EndsWith(obj.key, Lit.networkx342)
            THEN <<<<"data-requires-python", Lit.python310>>>> ELSE <<>>
    IN  Line("a", Lit.slash \o obj.key \o maybeFragment,
             pep658Attributes \o pythonAttributes, displayName)

\* generateSimplePackageHtml(objects, packageName, isNightly)
GenerateSimplePackageHtml(objects, packageName, isNightly, epochSeconds) ==
    LET sortedObjects == SortByKeyLocale(<<>>, objects)
    IN  HtmlHeader
        \o <<Line("h1", <<>>, <<>>,
                  Lit.linksFor \o ReplaceAll(ToLowerCase(packageName), Lit.underscore, Lit.dash))>>
        \o [i \in 1..Len(sortedObjects) |-> PackageLink(sortedObjects[i], isNightly)]
        \o HtmlFooter(epochSeconds)

\* what follows `<a href="/` in the entry string of a libtorch link: the part
\* entries.sort() orders the entries by
LibtorchEntryText(line) == DropChars(line.href, 1) \o <<"\"", ">">> \o line.text

RECURSIVE InsertEntry(_, _)
InsertEntry(sorted, line) ==
    IF sorted = <<>> THEN <<line>>
    ELSE IF CodeUnitCompare(LibtorchEntryText(line), LibtorchEntryText(Head(sorted))) < 0
    THEN <<line>> \o sorted
    ELSE <<Head(sorted)>> \o InsertEntry(Tail(sorted), line)

RECURSIVE SortEntries(_, _)
\* entries.sort()
SortEntries(sorted, entries) ==
    IF entries = <<>> THEN sorted
    ELSE SortEntries(InsertEntry(sorted, Head(entries)), Tail(entries))

\* generateLibtorchHtml(objects, subdir, prefix)
GenerateLibtorchHtml(objects, subdir, prefix) ==
    LET isRoot == subdir = prefix
        shown == SelectSeq(objects, LAMBDA obj : ~(~isRoot /\ Dirname(obj.key) = prefix))
        entry(obj) ==
            LET stripped == IF StartsWith(obj.key, subdir)
                            THEN DropChars(obj.key, Len(subdir)) ELSE obj.key
                sanitized == IF StartsWith(stripped, Lit.slash) THEN DropChars(stripped, 1)
                             ELSE stripped
            IN  Line("a", Lit.slash \o obj.key, <<>>, sanitized)
    IN  SortEntries(<<>>, [i \in 1..Len(shown) |-> entry(shown[i])])

-----------------------------------------------------------------------------
(* The scheduled run: discoverR2Packages, uploadToR2, processPrefix and the *)
(* scheduled handler of the worker entry point                              *)

\* config.prefixes: three of DEFAULT_PREFIXES, in their order there
Prefixes == <<Lit.whl, Lit.whlNightly, Lit.libtorch>>

\* config.packageAllowList: one name of PACKAGE_ALLOW_LIST_ARRAY
PackageAllowList == {<<"s", "i", "x">>}

\* config.keepThreshold
KeepThreshold == 60

\* the seconds after which metadata fetching is skipped
SoftDeadline == 40

\* readings of performance.now() - startTime, in seconds.  The reading moves
\* on over the awaits on the source store (the listing and the metadata
\* lookups); what it would move on over an await on the destination reaches
\* the next reading of the run all the same, with the next listing.
TimePoints == {0, SoftDeadline, SoftDeadline + 1}

\* the readings an await that began at reading t may end at
LaterTimes(t) == {u \in TimePoints : u >= t}

\* the keys listObjectsWithPrefix yields for a prefix
ListObjectsWithPrefix(keys, prefix) ==
    LET normalizedPrefix == NormalizedPrefix(prefix)
        yielded == YieldPage(ListUnderPrefix(keys, normalizedPrefix), normalizedPrefix)
    IN  [i \in 1..Len(yielded) |-> yielded[i].key]

\* index.nightlyPackagesToShow(packageAllowList, keepThreshold): one result
\* per order the sort may leave the versions in
NightlyPackagesToShow(objects, packageAllowList, keepThreshold) ==
    {FilterObjects(objects, Walk(EmptyWalk, sorted, packageAllowList, keepThreshold).hide) :
        sorted \in SortOutcomes(NormalizedVersions(objects))}

\* objects as processPrefix has them before the metadata stage
CatalogOf(keys, prefix) ==
    LET objectKeys == ListObjectsWithPrefix(keys, prefix)
        objects == [i \in 1..Len(objectKeys) |-> MakeObject(objectKeys[i])]
    IN  IF prefix = Lit.whlNightly
        THEN NightlyPackagesToShow(objects, PackageAllowList, KeepThreshold)
        ELSE {objects}

IsPep503(prefix) == StartsWith(prefix, Lit.whl)

\* BeforeMetadata measured from the start of the feed
BeforeMetadataPerFeed(nowTime, startTime, prefixStartTime) == nowTime - prefixStartTime

\* beforeMetadata = (performance.now() - startTime) / 1000
BeforeMetadata(nowTime, startTime, prefixStartTime) == nowTime - startTime

\* DecideEnrichment with a deadline that throws
DecideEnrichmentAborting(prefix, objects, beforeMetadata) ==
    IF IsPep503(prefix) /\ Len(objects) > 0
    THEN IF beforeMetadata > SoftDeadline
         THEN [phase |-> "failed", skipped |-> TRUE]
         ELSE [phase |-> "enrich", skipped |-> FALSE]
    ELSE [phase |-> "index", skipped |-> FALSE]

\* the branch processPrefix takes at the metadata stage
DecideEnrichment(prefix, objects, beforeMetadata) ==
    IF IsPep503(prefix) /\ Len(objects) > 0
    THEN IF beforeMetadata > SoftDeadline
         THEN [phase |-> "index", skipped |-> TRUE]
         ELSE [phase |-> "enrich", skipped |-> FALSE]
    ELSE [phase |-> "index", skipped |-> FALSE]

\* fetchObjectMetadata for a key whose two HeadObject calls answer so
FetchObjectMetadata(head, sibling) ==
    IF head.kind /= "ok" THEN MetadataAfterHead(head)
    ELSE MetadataAfterSibling(MetadataAfterHead(head), sibling)

\* what the source store answers for the keys of one feed
StoreAnswers ==
    { [head |-> HeadOk(Defined(Lit.plainChecksum), 3, Undefined),
       sibling |-> HeadOk(Defined(Lit.plainChecksum), 3, Undefined)],
      [head |-> HeadFailure("error"), sibling |-> HeadFailure("error")] }

\* fetchMetadataBatch as one call: the Map it returns
FetchMetadataBatch(keys, answer) ==
    [k \in Range(keys) |-> FetchObjectMetadata(answer.head, answer.sibling)]

\* the "Merge metadata" loop
MergeMetadata(objects, metadataMap) ==
    [i \in 1..Len(objects) |->
        IF objects[i].origKey \in DOMAIN metadataMap
        THEN [objects[i] EXCEPT !.checksum = metadataMap[objects[i].origKey].checksum,
                                !.size = metadataMap[objects[i].origKey].size,
                                !.pep658 = metadataMap[objects[i].origKey].pep658]
        ELSE objects[i]]

\* bucket.list({ prefix }): the keys under the prefix, in key order
BucketList(bucket, prefix) ==
    SortByCodeUnits({k \in DOMAIN bucket : StartsWith(k, prefix)})

\* StandalonePackages with the names as the keys spell them
StandalonePackagesAsSpelled(bucket, subdir) ==
    LET prefix == subdir \o Lit.slash
        listed == BucketList(bucket, prefix)
        partsOf(key) == Split(DropChars(key, Len(prefix)), "/")
        hits == SelectSeq(listed, LAMBDA key :
                    Len(partsOf(key)) = 2 /\ partsOf(key)[2] = Lit.indexHtml)
    IN  AddAll(<<>>, [i \in 1..Len(hits) |-> partsOf(hits[i])[1]])

\* the packages Set discoverR2Packages builds for one subdir
StandalonePackages(bucket, subdir) ==
    LET prefix == subdir \o Lit.slash
        listed == BucketList(bucket, prefix)
        partsOf(key) == Split(DropChars(key, Len(prefix)), "/")
        hits == SelectSeq(listed, LAMBDA key :
                    Len(partsOf(key)) = 2 /\ partsOf(key)[2] = Lit.indexHtml)
    IN  AddAll(<<>>, [i \in 1..Len(hits) |-> ReplaceAll(partsOf(hits[i])[1], Lit.dash, Lit.underscore)])

\* discoverR2Packages(bucket, subdirs)
DiscoverR2Packages(bucket, subdirs) ==
    [subdir \in {s \in Range(subdirs) : StandalonePackages(bucket, s) /= <<>>} |->
        StandalonePackages(bucket, subdir)]

RECURSIVE MergeStandaloneCaseSensitive(_, _)
\* MergeStandalone comparing the names as they are
MergeStandaloneCaseSensitive(packageNames, r2PackagesInSubdir) ==
    IF r2PackagesInSubdir = <<>> THEN packageNames
    ELSE LET pkg == Head(r2PackagesInSubdir)
         IN  MergeStandaloneCaseSensitive(
                 IF \E i \in 1..Len(packageNames) : packageNames[i] = pkg
                 THEN packageNames ELSE Append(packageNames, pkg),
                 Tail(r2PackagesInSubdir))

RECURSIVE MergeStandalone(_, _)
\* the "Merge with R2 standalone packages" loop
MergeStandalone(packageNames, r2PackagesInSubdir) ==
    IF r2PackagesInSubdir = <<>> THEN packageNames
    ELSE LET pkg == Head(r2PackagesInSubdir)
         IN  MergeStandalone(
                 IF \E i \in 1..Len(packageNames) :
                        ToLowerCase(packageNames[i]) = ToLowerCase(pkg)
                 THEN packageNames ELSE Append(packageNames, pkg),
                 Tail(r2PackagesInSubdir))

\* a page processPrefix is going to render and upload
Job(key, kind, names, objects, name) ==
    [key |-> key, kind |-> kind, names |-> names, objects |-> objects, name |-> name]

RECURSIVE PackageJobs(_, _, _, _)
\* the "Generate per-package HTML" loop
PackageJobs(objects, prefix, subdir, packageNames) ==
    IF packageNames = <<>> THEN <<>>
    ELSE LET pkgName == Head(packageNames)
             packageObjects == GenFileList(objects, prefix, Defined(subdir), Defined(pkgName))
             compatPkgName == ReplaceAll(ToLowerCase(pkgName), Lit.underscore, Lit.dash)
         IN  (IF packageObjects = <<>> THEN <<>>
              ELSE <<Job(subdir \o Lit.slash \o compatPkgName \o Lit.slash \o Lit.indexHtml,
                         "package", <<>>, packageObjects, pkgName)>>)
             \o PackageJobs(objects, prefix, subdir, Tail(packageNames))

\* one iteration of the loop over subdirs
SubdirJobs(objects, prefix, subdir, r2Packages) ==
    IF IsPep503(prefix)
    THEN LET packageNames ==
                 MergeStandalone(GetPackageNames(objects, prefix, Defined(subdir)),
                                 IF subdir \in DOMAIN r2Packages THEN r2Packages[subdir]
                                 ELSE <<>>)
         IN  <<Job(subdir \o Lit.slash \o Lit.indexHtml, "packages", packageNames, <<>>, <<>>)>>
             \o PackageJobs(objects, prefix, subdir, packageNames)
    ELSE LET libtorchObjects == GenFileList(objects, prefix, Defined(subdir), Defined(Lit.libtorch))
         IN  IF libtorchObjects = <<>> THEN <<>>
             ELSE <<Job(subdir \o Lit.slash \o Lit.indexHtml, "libtorch", <<>>, libtorchObjects, subdir)>>

RECURSIVE FeedJobs(_, _, _, _)
\* the loop over subdirs
FeedJobs(objects, prefix, subdirs, r2Packages) ==
    IF subdirs = <<>> THEN <<>>
    ELSE SubdirJobs(objects, prefix, Head(subdirs), r2Packages)
         \o FeedJobs(objects, prefix, Tail(subdirs), r2Packages)

\* the html of a page, generated at reading nowTime
Render(job, prefix, nowTime) ==
    CASE job.kind = "packages" -> GenerateSimplePackagesHtml(job.names, nowTime)
      [] job.kind = "package" ->
            GenerateSimplePackageHtml(job.objects, job.name, prefix = Lit.whlNightly, nowTime)
      [] OTHER -> GenerateLibtorchHtml(job.objects, job.name, prefix)

\* bucket.put(key, html, { httpMetadata })
Put(bucket, key, html) ==
    MapSet(bucket, key,
           [html |-> html, contentType |-> "text/html",
            cacheControl |-> "no-cache,no-store,must-revalidate"])

\* UploadToR2 putting to the first bucket only
UploadToR2FirstBucketOnly(buckets, done, key, html) ==
    [b \in DOMAIN buckets |-> IF b \in done /\ b = 1 THEN Put(buckets[b], key, html)
                              ELSE buckets[b]]

\* uploadToR2 with the puts of the buckets in done completed
UploadToR2(buckets, done, key, html) ==
    [b \in DOMAIN buckets |-> IF b \in done THEN Put(buckets[b], key, html) ELSE buckets[b]]

\* number of keys in the source bucket
MaxSourceKeys == 2

\* keys the source bucket may hold
SourcePool ==
    { Lit.whl \o Lit.slash \o Lit.cpu \o Lit.slash \o Lit.file,
      Lit.whl \o Lit.slash \o <<"b", "+", "c", "-", "1", ".", "w", "h", "l">>,
      Lit.whlNightly \o Lit.slash \o Lit.cpu \o Lit.slash \o <<"s", "i", "x", "-", "1", ".", "0", ".", "0", "-", "a", ".", "w", "h", "l">>,
      Lit.whlNightly \o Lit.slash \o Lit.cpu \o Lit.slash \o <<"b", "-", "1", ".", "0", ".", "0", "-", "a", ".", "w", "h", "l">>,
      Lit.libtorch \o Lit.slash \o Lit.cpu \o Lit.slash \o <<"l", "i", "b", "t", "o", "r", "c", "h", "-", "1", ".", "z", "i", "p">>,
      Lit.libtorch \o Lit.slash \o <<"x", "-", "1", ".", "z", "i", "p">> }

\* a page some other publisher has put in the destination
StandalonePage ==
    [html |-> <<Line("standalone", <<>>, <<>>, <<>>)>>, contentType |-> "text/html",
     cacheControl |-> "no-cache,no-store,must-revalidate"]

\* destR2Buckets before the run: two empty buckets, or two buckets that hold
\* the standalone page
Destinations ==
    { <<<<>>, <<>>>>,
      <<MapSet(<<>>, Lit.standaloneKey, StandalonePage), MapSet(<<>>, Lit.standaloneKey, StandalonePage)>> }

\* the variables of Env that loadConfig reads
Env(bucket, region, accessKeyId, secretAccessKey) ==
    [SOURCE_S3_BUCKET |-> bucket, SOURCE_S3_REGION |-> region,
     S3_ACCESS_KEY_ID |-> accessKeyId, S3_SECRET_ACCESS_KEY |-> secretAccessKey]

\* prior when the worker is invoked for the first time on buckets
FirstInvocation(buckets) ==
    [first |-> buckets, again |-> FALSE, left |-> <<>>, finished |-> FALSE, objects |-> <<>>]

NoTrail == [began |-> FALSE, filtered |-> FALSE, skipped |-> FALSE, raised |-> FALSE,
            recorded |-> 0, objects |-> <<>>, seen |-> {}, plan |-> <<>>, uploaded |-> <<>>,
            rejected |-> <<>>]

Init ==
    /\ RetentionIdle
    /\ CatalogIdle
    /\ MetaIdle
    /\ runPhase = "feeds"
    /\ now = 0
    /\ source \in {q \in SUBSET SourcePool : Cardinality(q) <= MaxSourceKeys}
    /\ dest \in Destinations
    /\ feedIdx = 1
    /\ fPhase = "list"
    /\ fStart = 0
    /\ fObjects = <<>>
    /\ fPlan = <<>>
    /\ fError = Undefined
    /\ results = <<>>
    /\ report = [totalObjects |-> 0, errors |-> <<>>]
    /\ enrichLog = <<>>
    /\ trail = [p \in Range(Prefixes) |-> NoTrail]
    /\ env = Env(Defined(<<"b">>), Defined(<<"r">>), Undefined, Undefined)
    /\ prior = FirstInvocation(dest)
    /\ query = <<>>

Prefix == Prefixes[feedIdx]

idleVars == <<retVars, catVars, metaVars, env, prior, query>>

\* the for-await loop over listObjectsWithPrefix ends or throws; objects is
\* built and, for whl/nightly, filtered
ListFeed ==
    /\ runPhase = "feeds"
    /\ fPhase = "list"
    /\ \E t \in LaterTimes(now) :
          /\ now' = t
          /\ \/ /\ fObjects' \in CatalogOf(source, Prefix)
                /\ fPhase' = "decide"
                /\ fError' = fError
                \* filtered: the "Apply nightly filtering" branch was taken
                /\ trail' = [trail EXCEPT ![Prefix].began = TRUE,
                                          ![Prefix].filtered = (Prefix = Lit.whlNightly)]
             \/ /\ fPhase' = "failed"
                /\ fError' = Defined(Lit.listError)
                /\ fObjects' = fObjects
                /\ trail' = [trail EXCEPT ![Prefix].began = TRUE, ![Prefix].raised = TRUE]
    /\ UNCHANGED <<runPhase, source, dest, feedIdx, fStart, fPlan, results, report,
                   enrichLog, idleVars>>

\* "Fetch metadata for PEP503 prefixes": the elapsed time is read and the
\* metadata stage is entered or passed over
Decide ==
    /\ runPhase = "feeds"
    /\ fPhase = "decide"
    /\ LET beforeMetadata == BeforeMetadata(now, 0, fStart)
           decision == DecideEnrichment(Prefix, fObjects, beforeMetadata)
       IN  /\ fPhase' = decision.phase
           /\ enrichLog' =
                IF IsPep503(Prefix) /\ Len(fObjects) > 0
                THEN Append(enrichLog,
                            [prefix |-> Prefix, at |-> now,
                             event |-> IF decision.skipped THEN "skip" ELSE "start"])
                ELSE enrichLog
           /\ trail' = [trail EXCEPT ![Prefix].skipped = decision.skipped,
                                     ![Prefix].objects = fObjects]
    /\ UNCHANGED <<runPhase, now, source, dest, feedIdx, fStart, fObjects, fPlan, fError,
                   results, report, idleVars>>

\* fetchMetadataBatch returns and its Map is merged into objects
Enrich ==
    /\ runPhase = "feeds"
    /\ fPhase = "enrich"
    /\ \E t \in LaterTimes(now), answer \in StoreAnswers :
          LET keys == [i \in 1..Len(fObjects) |-> fObjects[i].origKey]
              merged == MergeMetadata(fObjects, FetchMetadataBatch(keys, answer))
          IN  /\ now' = t
              /\ fObjects' = merged
              /\ trail' = [trail EXCEPT ![Prefix].objects = merged]
    /\ enrichLog' = Append(enrichLog, [prefix |-> Prefix, at |-> now, event |-> "lookups"])
    /\ fPhase' = "index"
    /\ UNCHANGED <<runPhase, source, dest, feedIdx, fStart, fPlan, fError, results, report,
                   idleVars>>

\* the index is built and discoverR2Packages lists the first destination
\* bucket once per subdir: it returns, or one of its lists throws
Discover ==
    /\ runPhase = "feeds"
    /\ fPhase = "index"
    /\ LET subdirs == GetSubdirs(fObjects, Prefix)
       IN  \/ /\ fPlan' = FeedJobs(fObjects, Prefix, subdirs,
                                    DiscoverR2Packages(dest[1], subdirs))
              /\ fPhase' = "upload"
              \* seen: the keys of the bucket discoverR2Packages listed; plan: the
              \* key, kind and package names of the pages to upload
              /\ trail' = [trail EXCEPT
                              ![Prefix].seen = DOMAIN dest[1],
                              ![Prefix].plan = [i \in 1..Len(fPlan') |->
                                  [key |-> fPlan'[i].key, kind |-> fPlan'[i].kind,
                                   names |-> fPlan'[i].names]]]
              /\ UNCHANGED fError
           \/ /\ subdirs /= <<>>
              /\ fPhase' = "failed"
              /\ fError' = Defined(Lit.listError)
              /\ trail' = [trail EXCEPT ![Prefix].raised = TRUE]
              /\ UNCHANGED fPlan
    /\ UNCHANGED <<runPhase, now, source, dest, feedIdx, fStart, fObjects, results, report,
                   enrichLog, idleVars>>

\* the next page is generated and uploadToR2 puts it to every bucket; the
\* Promise.all resolves, or rejects with the puts of some buckets not done
Upload ==
    /\ runPhase = "feeds"
    /\ fPhase = "upload"
    /\ fPlan /= <<>>
    /\ LET job == Head(fPlan)
           html == Render(job, Prefix, now)
       IN  \E done \in SUBSET DOMAIN dest :
             /\ dest' = UploadToR2(dest, done, job.key, html)
             /\ IF done = DOMAIN dest
                THEN /\ fPlan' = Tail(fPlan)
                     /\ trail' = [trail EXCEPT ![Prefix].uploaded =
                                     Append(@, [key |-> job.key, html |-> html])]
                     /\ UNCHANGED <<fPhase, fError>>
                ELSE /\ fPhase' = "failed"
                     /\ fError' = Defined(Lit.putError)
                     /\ trail' = [trail EXCEPT ![Prefix].raised = TRUE,
                                               ![Prefix].rejected = Append(@, job.key)]
                     /\ UNCHANGED fPlan
    /\ UNCHANGED <<runPhase, now, source, feedIdx, fStart, fObjects, results, report,
                   enrichLog, idleVars>>

\* NextFeed passing over the prefix after a failed one
NextFeedSkipping(i) == i + 2

\* NextFeed for a handler that rethrows: no further prefix is processed
NextFeedRethrowing(i) == Len(Prefixes) + 1

\* the position of the loop over config.prefixes after processPrefix has
\* returned the result of its catch block
NextFeed(i) == i + 1

\* results[prefix] = result, and the loop over config.prefixes moves on
Record(result, next) ==
    /\ results' = MapSet(results, Prefix, result)
    /\ trail' = [trail EXCEPT ![Prefix].recorded = @ + 1]
    /\ feedIdx' = next
    /\ fPhase' = IF next <= Len(Prefixes) THEN "list" ELSE "none"
    /\ fStart' = now
    /\ fObjects' = <<>>
    /\ fPlan' = <<>>
    /\ fError' = Undefined

\* processPrefix returns { objectCount, duration }
FeedReturn ==
    /\ runPhase = "feeds"
    /\ fPhase = "upload"
    /\ fPlan = <<>>
    /\ Record([objectCount |-> Len(fObjects), duration |-> now - fStart, error |-> Undefined],
              feedIdx + 1)
    /\ UNCHANGED <<runPhase, now, source, dest, report, enrichLog, idleVars>>

\* the catch block of processPrefix returns { objectCount: 0, duration, error }
FeedCatch ==
    /\ runPhase = "feeds"
    /\ fPhase = "failed"
    /\ Record([objectCount |-> 0, duration |-> now - fStart, error |-> fError],
              NextFeed(feedIdx))
    /\ UNCHANGED <<runPhase, now, source, dest, report, enrichLog, idleVars>>

RECURSIVE TotalObjects(_, _)
\* Object.values(results).reduce((sum, r) => sum + r.objectCount, 0)
TotalObjects(res, prefixes) ==
    IF prefixes = <<>> THEN 0
    ELSE (IF Head(prefixes) \in DOMAIN res THEN res[Head(prefixes)].objectCount ELSE 0)
         + TotalObjects(res, Tail(prefixes))

\* "Log final metrics": the handler returns
Report ==
    /\ runPhase = "feeds"
    /\ feedIdx > Len(Prefixes)
    /\ report' = [totalObjects |-> TotalObjects(results, Prefixes),
                  errors |-> SelectSeq(Prefixes, LAMBDA p :
                                 p \in DOMAIN results /\ Truthy(results[p].error))]
    /\ runPhase' = "done"
    /\ UNCHANGED <<now, source, dest, feedIdx, fPhase, fStart, fObjects, fPlan, fError,
                   results, trail, enrichLog, idleVars>>

Next ==
    \/ ListFeed
    \/ Decide
    \/ Enrich
    \/ Discover
    \/ Upload
    \/ FeedReturn
    \/ FeedCatch
    \/ Report

Spec == Init /\ [][Next]_vars

\* a run over one of four destinations: empty buckets; the standalone page;
\* pages of two names equal ignoring case, of a name the catalog has, of a
\* deeper path and of another subdirectory; a page with an empty name
InitMerge ==
    LET at(path) == Lit.whl \o Lit.slash \o path \o Lit.slash \o Lit.indexHtml
        holding(keys) == [k \in keys |-> StandalonePage] @@ <<>>
        pages == { {}, {Lit.standaloneKey},
                   { Lit.standaloneKey, at(Lit.cpu \o <<"/", "Z", "_", "y">>),
                     at(Lit.cpu \o <<"/", "a">>), at(Lit.cpu \o <<"/", "x", "/", "y">>),
                     at(Lit.xpu \o <<"/", "q">>) },
                   { at(Lit.cpu \o Lit.slash) } }
    IN  /\ RetentionIdle
        /\ CatalogIdle
        /\ MetaIdle
        /\ runPhase = "feeds"
        /\ now = 0
        /\ source \in {q \in SUBSET {k \in SourcePool : StartsWith(k, Lit.whl \o Lit.slash \o Lit.cpu)
                                                      \/ Dirname(k) = Lit.whl} :
                           Cardinality(q) <= MaxSourceKeys}
        /\ dest \in {<<holding(keys), holding(keys)>> : keys \in pages}
        /\ feedIdx = 1
        /\ fPhase = "list"
        /\ fStart = 0
        /\ fObjects = <<>>
        /\ fPlan = <<>>
        /\ fError = Undefined
        /\ results = <<>>
        /\ report = [totalObjects |-> 0, errors |-> <<>>]
        /\ enrichLog = <<>>
        /\ trail = [p \in Range(Prefixes) |-> NoTrail]
        /\ env = Env(Defined(<<"b">>), Defined(<<"r">>), Undefined, Undefined)
        /\ prior = FirstInvocation(dest)
        /\ query = <<>>

SpecMerge == InitMerge /\ [][Next]_vars

\* the cron trigger invokes scheduled once more, after the invocation before
\* it returned or was ended by the runtime wherever it stood; the source
\* bucket and the destination buckets are as that invocation left them.
\* Two invocations are followed.
Scheduled ==
    /\ runPhase \in {"feeds", "done"}
    /\ ~prior.again
    /\ prior' = [prior EXCEPT !.again = TRUE, !.left = dest,
                              !.finished = (runPhase = "done" /\ report.errors = <<>>),
                              !.objects = [p \in Range(Prefixes) |-> trail[p].objects]]
    /\ runPhase' = "feeds"
    /\ now' = 0
    /\ feedIdx' = 1
    /\ fPhase' = "list"
    /\ fStart' = 0
    /\ fObjects' = <<>>
    /\ fPlan' = <<>>
    /\ fError' = Undefined
    /\ results' = <<>>
    /\ report' = [totalObjects |-> 0, errors |-> <<>>]
    /\ enrichLog' = <<>>
    /\ trail' = [p \in Range(Prefixes) |-> NoTrail]
    /\ UNCHANGED <<source, dest, env, query, retVars, catVars, metaVars>>

\* the first invocation, on a source bucket with a wheel whose package name
\* has an underscore
InitCron ==
    /\ RetentionIdle
    /\ CatalogIdle
    /\ MetaIdle
    /\ runPhase = "feeds"
    /\ now = 0
    /\ source \in {{}, {Lit.whl \o Lit.slash \o Lit.cpu \o Lit.slash \o <<"a", "_", "b">> \o DropChars(Lit.file, 1)}}
    /\ dest \in Destinations
    /\ feedIdx = 1
    /\ fPhase = "list"
    /\ fStart = 0
    /\ fObjects = <<>>
    /\ fPlan = <<>>
    /\ fError = Undefined
    /\ results = <<>>
    /\ report = [totalObjects |-> 0, errors |-> <<>>]
    /\ enrichLog = <<>>
    /\ trail = [p \in Range(Prefixes) |-> NoTrail]
    /\ env = Env(Defined(<<"b">>), Defined(<<"r">>), Undefined, Undefined)
    /\ prior = FirstInvocation(dest)
    /\ query = <<>>

NextCron == Next \/ Scheduled

\* LoadConfigThrows without the validation of the credentials
LoadConfigThrowsUnpaired(e) ==
    ~Truthy(e.SOURCE_S3_BUCKET) \/ ~Truthy(e.SOURCE_S3_REGION)

\* loadConfig(env) throws
LoadConfigThrows(e) ==
    LET hasAccessKey == Truthy(e.S3_ACCESS_KEY_ID)
        hasSecretKey == Truthy(e.S3_SECRET_ACCESS_KEY)
    IN  \/ ~Truthy(e.SOURCE_S3_BUCKET)
        \/ ~Truthy(e.SOURCE_S3_REGION)
        \/ hasAccessKey /= hasSecretKey

\* scheduled calls loadConfig: it returns the Config, or it throws and the
\* catch block of scheduled rethrows
LoadConfig ==
    /\ runPhase = "config"
    /\ runPhase' = IF LoadConfigThrows(env) THEN "threw" ELSE "feeds"
    /\ UNCHANGED <<now, source, dest, feedIdx, fPhase, fStart, fObjects, fPlan, fError,
                   results, report, enrichLog, trail, idleVars>>

\* scheduled is invoked with an Env whose four variables are each unset,
\* empty or set
InitConfig ==
    LET values == {Undefined, Defined(<<>>), Defined(<<"k">>)}
    IN  /\ RetentionIdle
        /\ CatalogIdle
        /\ MetaIdle
        /\ runPhase = "config"
        /\ now = 0
        /\ source = {Lit.whl \o Lit.slash \o Lit.cpu \o Lit.slash \o Lit.file}
        /\ dest \in Destinations
        /\ feedIdx = 1
        /\ fPhase = "list"
        /\ fStart = 0
        /\ fObjects = <<>>
        /\ fPlan = <<>>
        /\ fError = Undefined
        /\ results = <<>>
        /\ report = [totalObjects |-> 0, errors |-> <<>>]
        /\ enrichLog = <<>>
        /\ trail = [p \in Range(Prefixes) |-> NoTrail]
        /\ env \in {Env(b, r, a, k) : b \in values, r \in values, a \in values, k \in values}
        /\ prior = FirstInvocation(dest)
        /\ query = <<>>

NextConfig == LoadConfig \/ Next

SpecConfig == InitConfig /\ [][NextConfig]_vars

\* number of objects of the index that is queried
MaxIndexed == 2

InitFiles ==
    /\ RetentionIdle
    /\ CatalogIdle
    /\ MetaIdle
    /\ RunIdle

\* index.genFileList(subdir, packageName) and index.getPackageNames(subdir)
\* on an S3Index of the prefix whl, each argument given or left out
QueryIndex ==
    LET under(dir, name) == dir \o Lit.slash \o name \o DropChars(Lit.file, 1)
        keys == { under(Lit.whl, <<"a">>), under(Lit.whl \o Lit.slash \o Lit.cpu, <<"a">>),
                  under(Lit.whl \o Lit.slash \o Lit.cpu, <<"b">>),
                  under(Lit.whl \o Lit.slash \o Lit.xpu, <<"a">>) }
        subdirs == {Undefined, Defined(Lit.whl \o Lit.slash \o Lit.cpu),
                    Defined(Lit.whl \o Lit.slash \o Lit.xpu)}
        packageNames == {Undefined, Defined(<<>>), Defined(<<"a">>), Defined(<<"b">>)}
    IN  /\ query = <<>>
        /\ \E held \in {q \in SUBSET keys : Cardinality(q) <= MaxIndexed},
              subdir \in subdirs, packageName \in packageNames :
              LET listed == SortByCodeUnits(held)
                  objects == [i \in 1..Len(listed) |-> MakeObject(listed[i])]
              IN  query' = [objects |-> objects, prefix |-> Lit.whl, subdir |-> subdir,
                            packageName |-> packageName,
                            files |-> GenFileList(objects, Lit.whl, subdir, packageName),
                            names |-> GetPackageNames(objects, Lit.whl, subdir)]
        /\ UNCHANGED <<retVars, catVars, metaVars, runPhase, now, source, dest, feedIdx, fPhase,
                       fStart, fObjects, fPlan, fError, results, report, enrichLog, trail, env,
                       prior>>

SpecFiles == InitFiles /\ [][QueryIndex]_vars

\* the first invocation, on a source bucket with the wheels of two packages
\* in one subdirectory
InitPrune ==
    /\ RetentionIdle
    /\ CatalogIdle
    /\ MetaIdle
    /\ runPhase = "feeds"
    /\ now = 0
    /\ source = { Lit.whl \o Lit.slash \o Lit.cpu \o Lit.slash \o Lit.file,
                  Lit.whl \o Lit.slash \o Lit.cpu \o Lit.slash \o <<"b">> \o DropChars(Lit.file, 1) }
    /\ dest \in Destinations
    /\ feedIdx = 1
    /\ fPhase = "list"
    /\ fStart = 0
    /\ fObjects = <<>>
    /\ fPlan = <<>>
    /\ fError = Undefined
    /\ results = <<>>
    /\ report = [totalObjects |-> 0, errors |-> <<>>]
    /\ enrichLog = <<>>
    /\ trail = [p \in Range(Prefixes) |-> NoTrail]
    /\ env = Env(Defined(<<"b">>), Defined(<<"r">>), Undefined, Undefined)
    /\ prior = FirstInvocation(dest)
    /\ query = <<>>

\* after an invocation that returned with no feed failed, an artifact is
\* removed from the source bucket and the cron trigger invokes scheduled
\* once more; the destination buckets are as the invocation left them
ScheduledAfterRemoval ==
    /\ runPhase = "done"
    /\ report.errors = <<>>
    /\ ~prior.again
    /\ \E key \in source : source' = source \ {key}
    /\ prior' = [prior EXCEPT !.again = TRUE, !.left = dest, !.finished = TRUE,
                              !.objects = [p \in Range(Prefixes) |-> trail[p].objects]]
    /\ runPhase' = "feeds"
    /\ now' = 0
    /\ feedIdx' = 1
    /\ fPhase' = "list"
    /\ fStart' = 0
    /\ fObjects' = <<>>
    /\ fPlan' = <<>>
    /\ fError' = Undefined
    /\ results' = <<>>
    /\ report' = [totalObjects |-> 0, errors |-> <<>>]
    /\ enrichLog' = <<>>
    /\ trail' = [p \in Range(Prefixes) |-> NoTrail]
    /\ UNCHANGED <<dest, env, query, retVars, catVars, metaVars>>

SpecPrune == InitPrune /\ [][Next \/ ScheduledAfterRemoval]_vars

SpecCron == InitCron /\ [][NextCron]_vars

-----------------------------------------------------------------------------
(* Claims about the retention filter                                        *)

\* input and output of the pass that ran last
LastIn == IF rPhase = "twice" THEN rOut1 ELSE rObjects
LastOut == IF rPhase = "twice" THEN rOut2 ELSE rOut1

\* the distinct RetentionKeys of a list of entries
KeysOf(objects) == {NormalizePackageVersion(o) : o \in Range(objects)}

AllowedKey(k) == ToLowerCase(WalkPackageName(k)) \in rAllow

Min(a, b) == IF a <= b THEN a ELSE b

\* C1 (as claimed): after a pass, every package name, names that differ only
\* in letter case counting as one, has at most keepThreshold distinct retained
\* RetentionKeys.
C1_AtMostKeepPerPackage ==
    rPhase /= "input" =>
        \A k \in KeysOf(LastOut) :
            Cardinality({j \in KeysOf(LastOut) :
                ToLowerCase(WalkPackageName(j)) = ToLowerCase(WalkPackageName(k))}) <= rKeep

\* C2 (as claimed): the walk goes over a descending total order, and no pruned
\* RetentionKey of an allow-listed package is newer (sorts before, under the
\* filter's comparison) than a retained RetentionKey of the same package.
C2_MostRecentRetained ==
    rPhase /= "input" =>
        /\ \A i, j \in 1..Len(rSorted) :
              i < j => SortCompare(rSorted[i], rSorted[j]) <= 0
        /\ \A k \in KeysOf(LastOut) : \A p \in KeysOf(LastIn) \ KeysOf(LastOut) :
              (AllowedKey(p) /\ WalkPackageName(p) = WalkPackageName(k))
                  => ~(SortCompare(p, k) < 0)

\* C3: after a pass no retained entry has a package name outside the
\* allow-list, no such name holds a counter, and every allow-listed name keeps
\* min(keepThreshold, number of its RetentionKeys) keys whatever other
\* packages are in the catalog.
C3_AllowListOnly ==
    rPhase /= "input" =>
        /\ \A k \in KeysOf(LastOut) : AllowedKey(k)
        /\ \A n \in DOMAIN rCounts : ToLowerCase(n) \in rAllow
        /\ \A k \in KeysOf(LastIn) :
              AllowedKey(k) =>
                  Cardinality({j \in KeysOf(LastOut) : WalkPackageName(j) = WalkPackageName(k)})
                    = Min(rKeep, Cardinality({j \in KeysOf(LastIn) :
                                                WalkPackageName(j) = WalkPackageName(k)}))

\* C3 witness: a key outside the allow-list was walked before a retained key
\* whose package used its whole budget, and was pruned.
C3_Witness ==
    /\ rPhase = "once"
    /\ rKeep > 0
    /\ \E i, j \in 1..Len(rSorted) :
          /\ i < j
          /\ ~AllowedKey(rSorted[i])
          /\ rSorted[i] \in rHide
          /\ rSorted[j] \in KeysOf(rOut1)
          /\ rCounts[WalkPackageName(rSorted[j])] = rKeep

\* C4: the pass over the first pass's output returns the same entries in the
\* same order.
C4_Idempotent == rPhase = "twice" => rOut2 = rOut1

\* C4 witness: the first pass pruned an allow-listed entry over the threshold
\* and kept others, and the second pass has run.
C4_Witness ==
    /\ rPhase = "twice"
    /\ rOut1 /= <<>>
    /\ \E o \in Range(rObjects) :
          /\ o \notin Range(rOut1)
          /\ ToLowerCase(WalkPackageName(NormalizePackageVersion(o))) \in rAllow

-----------------------------------------------------------------------------
(* Claims about the catalog filter                                          *)

\* dir is a direct child directory <prefix>/<segment> of the feed prefix whose
\* segment matches an accepted pattern
DirectChildMatching(dir, prefix) ==
    /\ StartsWith(dir, prefix \o Lit.slash)
    /\ LET segment == DropChars(dir, Len(prefix) + 1)
       IN  IndexOf(segment, "/") = 0 /\ MatchesAcceptedPattern(segment)

\* C5 (as claimed): every raw key the listing yields has an accepted
\* extension and a parent directory that is the feed prefix or a direct child
\* <prefix>/<segment> of it whose segment matches an accepted pattern.
C5_OnlyAcceptedKeys ==
    \A i \in 1..Len(cYielded) :
        LET raw == cYielded[i].raw
            prefix == NormalizedPrefix(cPrefix)
        IN  /\ HasAcceptedExtension(raw, AcceptedFileExtensions)
            /\ \/ Dirname(raw) = prefix
               \/ DirectChildMatching(Dirname(raw), prefix)

-----------------------------------------------------------------------------
(* Claims about metadata enrichment                                         *)

\* the main lookup of key k failed
MainLookupFailed(k) == mHead[k].kind /= "ok"

\* the sibling lookup of key k was made and failed other than by not-found
SiblingLookupFailed(k) == k \in DOMAIN mSibling /\ mSibling[k].kind = "error"

\* the sibling lookup of key k was made and found nothing
SiblingNotFound(k) == k \in DOMAIN mSibling /\ mSibling[k].kind = "notfound"

\* the entry of k carries the size and the checksum its own main lookup gave
OwnChecksumAndSizeIntact(k) ==
    /\ mResult[k].size = mHead[k].ContentLength
    /\ mResult[k].size.def
    /\ mResult[k].checksum = ParseChecksum(mHead[k])

\* C9 (as stated): when enrichment has returned it holds a result for every
\* requested key; an entry any of whose lookups failed (the main one, or the
\* sibling one other than by not-found) has no metadata at all; a not-found
\* sibling leaves the entry's own checksum and size intact.
C9_FailedLookupNoMetadata ==
    mPhase = "returned" =>
        /\ DOMAIN mResult = Range(mKeys)
        /\ \A k \in Range(mKeys) :
              /\ (MainLookupFailed(k) \/ SiblingLookupFailed(k)) => mResult[k] = EmptyMetadata
              /\ SiblingNotFound(k) => OwnChecksumAndSizeIntact(k)

\* C9 (amended): when enrichment has returned it holds a result for every
\* requested key; an entry whose main lookup failed has no metadata at all; an
\* entry whose main lookup succeeded keeps its own checksum and size whatever
\* became of its sibling lookup, and a sibling lookup that failed in any way
\* (not-found or otherwise) only leaves the sibling checksum absent.
C9_FailureIsolation ==
    mPhase = "returned" =>
        /\ DOMAIN mResult = Range(mKeys)
        /\ \A k \in Range(mKeys) :
              /\ MainLookupFailed(k) => mResult[k] = EmptyMetadata /\ k \notin DOMAIN mSibling
              /\ ~MainLookupFailed(k) => OwnChecksumAndSizeIntact(k)
              /\ (SiblingNotFound(k) \/ SiblingLookupFailed(k)) => ~mResult[k].pep658.def

\* a returned batch of two or more keys in which one entry's main lookup
\* failed, another's sibling lookup failed with an error, and a further lookup
\* gave an entry its checksum
C9_Witness ==
    /\ mPhase = "returned"
    /\ \E k1, k2 \in Range(mKeys) :
          /\ k1 /= k2
          /\ MainLookupFailed(k1)
          /\ SiblingLookupFailed(k2)
          /\ mResult[k2].checksum = Defined(<<"6", "1", "6", "2", "6", "3">>)

\* C10: no entry of the returned result carries a checksum derived from a
\* multipart composite value: neither its own checksum nor its sibling
\* checksum is present when the lookup that would supply it answered with a
\* composite value.
C10_NoCompositeChecksum ==
    mPhase = "returned" =>
        \A k \in Range(mKeys) :
            /\ (~MainLookupFailed(k) /\ Truthy(mHead[k].ChecksumSHA256)
                  /\ MultipartUploadRegex(mHead[k].ChecksumSHA256.val))
                 => ~mResult[k].checksum.def
            /\ (k \in DOMAIN mSibling /\ Truthy(mSibling[k].ChecksumSHA256)
                  /\ MultipartUploadRegex(mSibling[k].ChecksumSHA256.val))
                 => ~mResult[k].pep658.def

-----------------------------------------------------------------------------
(* Claims about the scheduled run                                           *)

\* C6: a feed whose processing raised an error has that error recorded with
\* objectCount 0; no feed is recorded more than once; and when the run has
\* ended (it ends by returning), every configured feed has been processed and
\* has exactly one recorded result, whatever happened to the feeds before it.
C6_FeedFailureIsolated ==
    /\ \A p \in DOMAIN results :
          trail[p].raised =>
              /\ results[p].error \in {Defined(Lit.listError), Defined(Lit.putError)}
              /\ results[p].objectCount = 0
    /\ \A p \in DOMAIN trail : trail[p].recorded <= 1
    /\ runPhase = "done" =>
          /\ DOMAIN results = Range(Prefixes)
          /\ \A p \in Range(Prefixes) : trail[p].began /\ trail[p].recorded = 1

\* the run has ended; its first feed raised an error and its second feed was
\* then processed to the end, with objects and uploaded pages
C6_Witness ==
    /\ runPhase = "done"
    /\ trail[Prefixes[1]].raised
    /\ ~trail[Prefixes[2]].raised
    /\ results[Prefixes[2]].objectCount > 0
    /\ trail[Prefixes[2]].uploaded /= <<>>

\* C7 (as stated): metadata enrichment is never started, and no lookup is
\* made, at an elapsed time that has reached the soft deadline (elapsed >= 40);
\* and once a feed has skipped enrichment, every later metadata stage of the
\* run is skipped too.
C7_NeverOnceDeadlineReached ==
    /\ \A i \in 1..Len(enrichLog) :
          enrichLog[i].event \in {"start", "lookups"} => enrichLog[i].at < SoftDeadline
    /\ \A i, j \in 1..Len(enrichLog) :
          (i < j /\ enrichLog[i].event = "skip") => enrichLog[j].event = "skip"

\* C7 (amended): metadata enrichment is never started, and no lookup is
\* made, at an elapsed time that exceeds the soft deadline (elapsed > 40; at
\* exactly 40 it still starts); and once a feed has skipped enrichment, every
\* later metadata stage of the run is skipped too.
C7_NeverPastDeadline ==
    /\ \A i \in 1..Len(enrichLog) :
          enrichLog[i].event \in {"start", "lookups"} => enrichLog[i].at <= SoftDeadline
    /\ \A i, j \in 1..Len(enrichLog) :
          (i < j /\ enrichLog[i].event = "skip") => enrichLog[j].event = "skip"

\* one feed made its lookups at exactly the deadline, a later feed with
\* objects came to the metadata stage after it and skipped
C7_Witness ==
    \E i, j \in 1..Len(enrichLog) :
        /\ i < j
        /\ enrichLog[i].event = "lookups"
        /\ enrichLog[i].at = SoftDeadline
        /\ enrichLog[j].event = "skip"
        /\ enrichLog[j].prefix /= enrichLog[i].prefix

\* the page uploaded under key, if any
UploadedAt(uploaded, key) == {uploaded[i].html : i \in {j \in 1..Len(uploaded) : uploaded[j].key = key}}

\* the link lines of a page
LinksOf(html) == {html[i] : i \in {j \in 1..Len(html) : html[j].tag = "a"}}

\* C8: a feed that skipped enrichment and on which no store raised an error is
\* recorded without error and with all its objects counted; none of its
\* objects carries a checksum, size or sibling checksum; for every object in
\* a subdirectory the package-listing page of the subdirectory and the page
\* of the object's package were uploaded and are in every destination
\* bucket, the object linked without fragment or metadata attribute; and a
\* feed is recorded as failed only when a store raised an error.
C8_SkipNotAbort ==
    /\ \A p \in DOMAIN results : results[p].error.def => trail[p].raised
    /\ \A p \in DOMAIN results :
          (trail[p].skipped /\ ~trail[p].raised) =>
              /\ ~results[p].error.def
              /\ results[p].objectCount = Len(trail[p].objects)
              /\ \A u \in Range(trail[p].uploaded) :
                    /\ \A b \in DOMAIN dest :
                          u.key \in DOMAIN dest[b] /\ dest[b][u.key].html = u.html
                    /\ \A link \in LinksOf(u.html) :
                          IndexOf(link.href, "#") = 0 /\ link.attributes = <<>>
              /\ \A o \in Range(trail[p].objects) :
                    /\ ~o.checksum.def /\ ~o.size.def /\ ~o.pep658.def
                    /\ Dirname(o.key) /= p =>
                          LET subdir == Dirname(o.key)
                              package == ReplaceAll(ObjToPackageName(o), Lit.underscore, Lit.dash)
                          IN  /\ \E html \in UploadedAt(trail[p].uploaded,
                                                       subdir \o Lit.slash \o Lit.indexHtml) :
                                    \E link \in LinksOf(html) : link.text = package
                              /\ \E html \in UploadedAt(trail[p].uploaded,
                                        subdir \o Lit.slash \o package \o Lit.slash \o Lit.indexHtml) :
                                    \E link \in LinksOf(html) : link.href = Lit.slash \o o.key

\* a feed was enriched and got checksums; a later feed skipped enrichment,
\* was recorded and had its two pages uploaded
C8_Witness ==
    \E p, q \in DOMAIN results :
        /\ trail[p].skipped
        /\ ~trail[p].raised
        /\ Len(trail[p].uploaded) >= 2
        /\ \E o \in Range(trail[q].objects) : o.checksum.def

\* a per-package file-listing page: the header is followed by the h1 line
IsPackagePage(html) == Len(html) >= 4 /\ html[4].tag = "h1"

\* C11: on every per-package page uploaded, each link is the link of an
\* object of the feed: `/<key>` with no fragment when the feed was
\* retention-filtered (the nightly feed), even if the object has a checksum;
\* on any other feed `/<key>#sha256=<checksum>` when the object has a
\* checksum and `/<key>` when it has none.
C11_NightlyOmitsFragment ==
    \A p \in DOMAIN trail :
        \A u \in Range(trail[p].uploaded) :
            IsPackagePage(u.html) =>
                /\ LinksOf(u.html) /= {}
                /\ \A link \in LinksOf(u.html) :
                      /\ trail[p].filtered => IndexOf(link.href, "#") = 0
                      /\ \E o \in Range(trail[p].objects) :
                            link.href = Lit.slash \o o.key
                                \o (IF Truthy(o.checksum) /\ ~trail[p].filtered
                                    THEN Lit.sha256Fragment \o o.checksum.val
                                    ELSE <<>>)

\* the nightly feed uploaded the page of an object that has a checksum, and
\* another feed uploaded a page with a `#sha256=` link
C11_Witness ==
    \E p, q \in DOMAIN trail :
        /\ trail[p].filtered
        /\ \E u \in Range(trail[p].uploaded) :
              /\ IsPackagePage(u.html)
              /\ \E o \in Range(trail[p].objects) :
                    Truthy(o.checksum) /\ \E link \in LinksOf(u.html) : link.href = Lit.slash \o o.key
        /\ ~trail[q].filtered
        /\ \E u \in Range(trail[q].uploaded) :
              IsPackagePage(u.html) /\ \E link \in LinksOf(u.html) : IndexOf(link.href, "#") > 0

\* C12: every page uploaded, whichever renderer made it, opens with the
\* `<!DOCTYPE html>`, `<html>`, `<body>` lines, closes with `</body>`,
\* `</html>` and a last `<!--TIMESTAMP <epoch-seconds>-->` line, and has each
\* of its link lines between the opening block and the closing tags.
C12_EveryPageFramed ==
    \A p \in DOMAIN trail :
        \A u \in Range(trail[p].uploaded) :
            LET html == u.html
                n == Len(html)
            IN  /\ n >= 6
                /\ SubSeq(html, 1, 3) = HtmlHeader
                /\ html[n - 2].tag = "</body>" /\ html[n - 1].tag = "</html>"
                /\ html[n].tag = "<!--TIMESTAMP-->"
                /\ \A i \in 1..n : html[i].tag = "a" => 3 < i /\ i < n - 2

\* the package-listing pages a feed planned, each with the subdirectory it is for
ListingJobs(p) ==
    {[subdir |-> SubSeq(job.key, 1, Len(job.key) - Len(Lit.indexHtml) - 1), names |-> job.names] :
        job \in {j \in Range(trail[p].plan) : j.kind = "packages"}}

\* the names the catalog gives a subdirectory
CatalogNames(p, subdir) == Range(GetPackageNames(trail[p].objects, p, Defined(subdir)))

\* the normalized names of the keys `<subdir>/<package>/index.html` that the
\* first destination bucket held when the feed looked
CandidateNames(p, subdir) ==
    LET head == subdir \o Lit.slash
        tail == Lit.slash \o Lit.indexHtml
        packageOf(key) == SubSeq(key, Len(head) + 1, Len(key) - Len(tail))
    IN  {ReplaceAll(packageOf(key), Lit.dash, Lit.underscore) :
            key \in {k \in trail[p].seen :
                        /\ Len(k) >= Len(head) + Len(tail)
                        /\ StartsWith(k, head) /\ EndsWith(k, tail)
                        /\ IndexOf(packageOf(k), "/") = 0}}

\* the candidates that no name of the catalog equals ignoring case
EligibleNames(p, subdir) ==
    {c \in CandidateNames(p, subdir) :
        \A n \in CatalogNames(p, subdir) : ToLowerCase(n) /= ToLowerCase(c)}

NoTwoEqualIgnoringCase(names) ==
    \A i, j \in 1..Len(names) : ToLowerCase(names[i]) = ToLowerCase(names[j]) => i = j

RECURSIVE PutAll(_, _, _)
\* the buckets after every page of jobs has been put to every bucket
PutAll(buckets, jobs, prefix) ==
    IF jobs = <<>> THEN buckets
    ELSE PutAll(UploadToR2(buckets, DOMAIN buckets, Head(jobs).key, Render(Head(jobs), prefix, 0)),
                Tail(jobs), prefix)

RECURSIVE FailureFreeRun(_, _)
\* the buckets after one run in which no store raises an error, the feeds
\* having the catalog and metadata they have in this invocation
FailureFreeRun(buckets, prefixes) ==
    IF prefixes = <<>> THEN buckets
    ELSE LET p == Head(prefixes)
             objects == trail[p].objects
             subdirs == GetSubdirs(objects, p)
             jobs == FeedJobs(objects, p, subdirs, DiscoverR2Packages(buckets[1], subdirs))
         IN  FailureFreeRun(PutAll(buckets, jobs, p), Tail(prefixes))

\* buckets with the timestamp comment of every page blanked
Untimed(buckets) ==
    LET untimed(html) == [i \in DOMAIN html |->
                            IF html[i].tag = "<!--TIMESTAMP-->"
                            THEN Line(html[i].tag, html[i].href, html[i].attributes, <<>>)
                            ELSE html[i]]
    IN  [b \in DOMAIN buckets |->
            [k \in DOMAIN buckets[b] |->
                [html |-> untimed(buckets[b][k].html), contentType |-> buckets[b][k].contentType,
                 cacheControl |-> buckets[b][k].cacheControl]]]

WrittenKeys(b) ==
    {k \in DOMAIN dest[b] : k \notin DOMAIN prior.first[b] \/ dest[b][k] /= prior.first[b][k]}

\* the keys whose upload raised an error
RejectedKeys == UNION {Range(trail[p].rejected) : p \in DOMAIN trail}

\* the statement as the specification words it: at the end of a run every
\* key the run wrote holds identical content in all destination buckets
C15_AllStoresIdenticalAtEnd ==
    runPhase = "done" =>
        \A b \in DOMAIN dest : \A k \in WrittenKeys(b) :
            \A c \in DOMAIN dest : k \in DOMAIN dest[c] /\ dest[c][k] = dest[b][k]

\* C15: every upload that completed has put its key with its page, content
\* type text/html and cache-control no-cache,no-store,must-revalidate to
\* every destination bucket, and every key written whose upload did not
\* raise an error holds that same object in all buckets, during the run and
\* at its end; only a key whose upload raised may be in some buckets and not
\* in others.
C15_CompletedUploadsIdentical ==
    LET rejected == RejectedKeys
        completed == UNION {Range(trail[p].uploaded) : p \in DOMAIN trail}
        stored(u) == [html |-> u.html, contentType |-> "text/html",
                      cacheControl |-> "no-cache,no-store,must-revalidate"]
    IN  /\ \A u \in completed :
              u.key \notin rejected =>
                  \A c \in DOMAIN dest : u.key \in DOMAIN dest[c] /\ dest[c][u.key] = stored(u)
        /\ \A b \in DOMAIN dest : \A k \in WrittenKeys(b) \ rejected :
              /\ \E u \in completed : u.key = k
              /\ \A c \in DOMAIN dest : k \in DOMAIN dest[c] /\ dest[c][k] = dest[b][k]

\* a run has ended with one page in every bucket and another, whose upload
\* raised, in one bucket only
C15_Witness ==
    /\ runPhase = "done"
    /\ \E p \in DOMAIN trail : \E u \in Range(trail[p].uploaded) :
          u.key \notin RejectedKeys /\ \A c \in DOMAIN dest : u.key \in WrittenKeys(c)
    /\ \E k \in RejectedKeys : k \in WrittenKeys(1) /\ k \notin DOMAIN dest[2]

\* a variable of Env is supplied when it is set to a non-empty string
Supplied(variable) == variable.def /\ variable.val /= <<>>

\* the configuration errors: bucket or region missing, or exactly one of the
\* two credentials supplied
ConfigurationError ==
    \/ ~Supplied(env.SOURCE_S3_BUCKET)
    \/ ~Supplied(env.SOURCE_S3_REGION)
    \/ Supplied(env.S3_ACCESS_KEY_ID) /\ ~Supplied(env.S3_SECRET_ACCESS_KEY)
    \/ ~Supplied(env.S3_ACCESS_KEY_ID) /\ Supplied(env.S3_SECRET_ACCESS_KEY)

\* C16: once configuration loading has been attempted, the invocation has
\* failed with an error if and only if the bucket or the region is missing
\* or exactly one of the two credentials is supplied; and when it has, no
\* feed was begun, no source listing, metadata lookup or destination listing
\* was made and the destination buckets are as they were.
C16_ConfigErrorsFatal ==
    runPhase /= "config" =>
        /\ (runPhase = "threw") = ConfigurationError
        /\ ConfigurationError =>
              /\ \A p \in DOMAIN trail : trail[p] = NoTrail
              /\ fObjects = <<>> /\ fPlan = <<>> /\ enrichLog = <<>> /\ results = <<>>
              /\ dest = prior.first /\ now = 0

\* the invocation failed on an Env with bucket and region and only one of
\* the credentials
C16_Witness ==
    /\ runPhase = "threw"
    /\ Supplied(env.SOURCE_S3_BUCKET) /\ Supplied(env.SOURCE_S3_REGION)
    /\ Supplied(env.S3_ACCESS_KEY_ID) /\ ~Supplied(env.S3_SECRET_ACCESS_KEY)
    /\ DOMAIN dest[1] /= {}

\* the keys at the 0-based positions from..(to - 1) of the keys asked for
KeysBetween(from, to) == {mKeys[i] : i \in {j \in 1..Len(mKeys) : from < j /\ j <= to}}

\* C17: the lookups in flight all belong to the one batch of at most
\* batchSize consecutive keys that starts at the loop position, which is a
\* multiple of batchSize; a lookup has been started only for keys of that
\* batch and of the batches before it, and every key of the batches before
\* it has its result, so no lookup of a batch starts before every lookup of
\* the batch before it has resolved; the stage can always go on until it
\* returns, and when it has returned every key asked for has a result.
C17_OneBatchAtATime ==
    /\ mNext % BatchSize = 0
    /\ DOMAIN mInflight \subseteq KeysBetween(mNext, mNext + BatchSize)
    /\ Cardinality(DOMAIN mInflight) <= BatchSize
    /\ DOMAIN mHead \subseteq KeysBetween(0, mNext + BatchSize)
    /\ DOMAIN mHead \subseteq DOMAIN mResult \cup DOMAIN mInflight
    /\ DOMAIN mResult = KeysBetween(0, mNext)
    /\ mPhase = "returned" => mInflight = <<>> /\ DOMAIN mResult = Range(mKeys)
    /\ mPhase /= "returned" => ENABLED NextMeta

\* the second batch is in flight, the first collected, with more keys asked
\* for than one batch holds
C17_Witness ==
    /\ Len(mKeys) > BatchSize
    /\ mNext = BatchSize
    /\ Cardinality(DOMAIN mResult) = BatchSize
    /\ \E k \in DOMAIN mInflight : mInflight[k].stage = "sibling"

\* a feed has reached one of its two outcomes: its result is recorded, once,
\* with an error, or without one and with every page it planned uploaded
Settled(p) ==
    /\ trail[p].recorded = 1
    /\ p \in DOMAIN results
    /\ \/ Truthy(results[p].error)
       \/ [i \in 1..Len(trail[p].plan) |-> trail[p].plan[i].key]
            = [i \in 1..Len(trail[p].uploaded) |-> trail[p].uploaded[i].key]

\* a listing, a lookup or a write was started for a feed
Touched(p) ==
    \/ trail[p].began
    \/ trail[p].objects /= <<>> \/ trail[p].plan /= <<>> \/ trail[p].seen /= {}
    \/ trail[p].uploaded /= <<>> \/ trail[p].rejected /= <<>>
    \/ \E i \in 1..Len(enrichLog) : enrichLog[i].prefix = p

\* C18: whenever a listing, lookup or write has been started for a feed,
\* every feed before it in config.prefixes has its result recorded, as
\* failed or with all the pages of its subdirectories and packages
\* uploaded; at most the feed at the loop position is unsettled; and the
\* final metrics are reported only when every feed is settled.
C18_FeedsOneAfterAnother ==
    /\ \A i \in 1..Len(Prefixes) :
          Touched(Prefixes[i]) =>
              /\ i <= feedIdx
              /\ \A j \in 1..(i - 1) : Settled(Prefixes[j])
    /\ \A i \in 1..Len(Prefixes) : i /= feedIdx => (Settled(Prefixes[i]) = (i < feedIdx))
    /\ runPhase = "done" => \A p \in Range(Prefixes) : Settled(p)

\* the third feed is uploading after the first failed and the second
\* uploaded its pages
C18_Witness ==
    /\ feedIdx = 3 /\ trail[Prefixes[3]].uploaded /= <<>>
    /\ Truthy(results[Prefixes[1]].error)
    /\ ~Truthy(results[Prefixes[2]].error) /\ trail[Prefixes[2]].uploaded /= <<>>

\* C19: genFileList yields, in index order and each once, exactly the
\* entries that pass the filters given: the subdirectory filter passes a
\* root entry of the feed and an entry whose key starts with the
\* subdirectory and a slash, the package filter passes an entry whose
\* package name equals the requested name; with both left out it yields
\* every entry; and getPackageNames is the duplicate-free ascending list of
\* the package names of the entries genFileList yields for the subdirectory.
C19_FilesForExact ==
    query /= <<>> =>
        LET inSubdir(obj) ==
                query.subdir.def =>
                    \/ IsObjAtRoot(obj, query.prefix)
                    \/ StartsWith(obj.key, query.subdir.val \o Lit.slash)
            ofPackage(obj) ==
                query.packageName.def => ObjToPackageName(obj) = query.packageName.val
            ofSubdir == SelectSeq(query.objects, inSubdir)
        IN  /\ query.files = SelectSeq(query.objects, LAMBDA obj : inSubdir(obj) /\ ofPackage(obj))
            /\ (~query.subdir.def /\ ~query.packageName.def) => query.files = query.objects
            /\ query.names = SortByCodeUnits({ObjToPackageName(obj) : obj \in Range(ofSubdir)})

\* the keys `<subdir>/<package>/index.html` the first destination bucket held
\* when the feed looked, of packages of which the catalog has no entry
StandaloneKeys(p, subdir) ==
    LET head == subdir \o Lit.slash
        tail == Lit.slash \o Lit.indexHtml
        packageOf(key) == SubSeq(key, Len(head) + 1, Len(key) - Len(tail))
    IN  {k \in trail[p].seen :
            /\ Len(k) >= Len(head) + Len(tail)
            /\ StartsWith(k, head) /\ EndsWith(k, tail)
            /\ IndexOf(packageOf(k), "/") = 0
            /\ ReplaceAll(packageOf(k), Lit.dash, Lit.underscore) \in EligibleNames(p, subdir)}

\* C20: the page of a standalone package, one whose name entered the package
\* set of a subdirectory through the merge only, is never put by the run: no
\* upload has its key, and every destination bucket holds under it what it
\* held before the run.
C20_StandalonePagesUntouched ==
    \A p \in {q \in DOMAIN trail : IsPep503(q)} :
        \A l \in ListingJobs(p) :
            \A k \in StandaloneKeys(p, l.subdir) :
                /\ \A q \in DOMAIN trail :
                      k \notin {u.key : u \in Range(trail[q].uploaded)} \cup Range(trail[q].rejected)
                /\ \A b \in DOMAIN dest :
                      k \in DOMAIN prior.first[b] => k \in DOMAIN dest[b] /\ dest[b][k] = prior.first[b][k]

\* the package-listing pages uploaded for a feed: [key, html] of the pages
\* planned with kind "packages"
UploadedListings(p) ==
    {u \in Range(trail[p].uploaded) :
        \E i \in 1..Len(trail[p].plan) :
            trail[p].plan[i].kind = "packages" /\ trail[p].plan[i].key = u.key}

\* C21: after a PEP 503 feed has been recorded without error, every package
\* link `<display-name>/` of every package-listing page
\* `<subdirectory>/index.html` uploaded for it has the object
\* `<subdirectory>/<display-name>/index.html` in each destination bucket.
C21_NoDanglingPackageLinks ==
    \A p \in {q \in DOMAIN trail : IsPep503(q)} :
        (p \in DOMAIN results /\ ~Truthy(results[p].error)) =>
            \A u \in UploadedListings(p) :
                LET subdir == SubSeq(u.key, 1, Len(u.key) - Len(Lit.indexHtml) - 1)
                IN  \A link \in LinksOf(u.html) :
                        \A b \in DOMAIN dest :
                            subdir \o Lit.slash \o link.href \o Lit.indexHtml \in DOMAIN dest[b]

\* a link line leads to the object: its href is `/<key>`, with or without a
\* `#sha256=` fragment
LinksTo(link, obj) ==
    \/ link.href = Lit.slash \o obj.key
    \/ StartsWith(link.href, Lit.slash \o obj.key \o Lit.sha256Fragment)

\* C22: after a feed has been recorded without error, every object of its
\* catalog, as filtered for the nightly feed, is linked from at least one
\* page uploaded for the feed, objects in the feed's root directory and
\* feeds without subdirectories included.
C22_EveryObjectLinked ==
    \A p \in DOMAIN trail :
        (p \in DOMAIN results /\ ~Truthy(results[p].error)) =>
            \A obj \in Range(trail[p].objects) :
                \E u \in Range(trail[p].uploaded) :
                    \E link \in LinksOf(u.html) : LinksTo(link, obj)

\* C23: a name on the package list planned for a subdirectory is a name the
\* catalog of this run gives the subdirectory, or the normalized name of a
\* key `<subdirectory>/<package>/index.html` of the destination under which
\* the first bucket holds what it held before the first invocation: a page
\* no run has written.
C23_ListedOnlyIfPresent ==
    \A p \in {q \in DOMAIN trail : IsPep503(q)} :
        \A l \in ListingJobs(p) :
            \A n \in Range(l.names) \ CatalogNames(p, l.subdir) :
                \E k \in StandaloneKeys(p, l.subdir) :
                    /\ ReplaceAll(SubSeq(k, Len(l.subdir) + 2, Len(k) - Len(Lit.indexHtml) - 1),
                                  Lit.dash, Lit.underscore) = n
                    /\ k \in DOMAIN prior.first[1]
                    /\ k \in DOMAIN dest[1] /\ dest[1][k] = prior.first[1][k]

====
